---- MODULE Spec2Model ----
(***************************************************************************)
(* Model of the free-api-hub request pipeline: the cache policy engine     *)
(* (src/src/cache/strategies.js, class CacheStrategies) and the rate       *)
(* limiter (src/src/index.js, rateLimit) over one shared key-value store.  *)
(*                                                                         *)
(* Every async function is modelled as a call slot whose pc names the      *)
(* await it is suspended at; one action is the code between two awaits.    *)
(* Time is relative: every store entry carries its remaining time to live  *)
(* in seconds and Tick lets TickSec seconds pass for the whole store.      *)
(***************************************************************************)
EXTENDS Integers, Sequences, FiniteSets, TLC

VARIABLES
  store,        \* the key-value store: key -> entry
  calls,        \* call slot -> frame of the async call in it
  tasks,        \* queue of pending setImmediate callbacks
  memoryCache,  \* the L1 Map of the multi-level accessor, in insertion order
  hist,         \* history: per rate-limit key, the calls in the window and the
                \* failures; for the analytics store, the responses recorded
  analytics,    \* the in-memory analytics store of the middleware
  clients,      \* per WebSocketServer built: this.clients, in insertion order
  rooms,        \* per WebSocketServer built: this.rooms, in insertion order
  sent,         \* per WebSocketServer built: what its last event handler sent
  info          \* the statistics the store's server keeps (INFO stats)

vars == <<store, calls, tasks, memoryCache, hist, analytics, clients, rooms, sent, info>>

\* the state of the realtime broadcaster
realtime == <<clients, rooms, sent>>

\* the analytics store and the realtime broadcaster, which the cache
\* engine, the rate limiter and the uptime oracle never touch, and the
\* statistics of the store's server, which only the specification of
\* getStats follows
otherParts == <<analytics, realtime, info>>

\* keyspace_hits and keyspace_misses of a server that has served no GET
infoInit == [keyspace_hits |-> 0, keyspace_misses |-> 0]

\* the variables the cache strategies leave alone
notEngine == <<memoryCache, hist, otherParts>>

\* const analytics = { requests: [], endpoints: new Map(), ... }
analyticsInit ==
  [requests |-> <<>>, endpoints |-> <<>>, services |-> <<>>, errors |-> <<>>,
   responseTime |-> <<>>, cacheHits |-> 0, cacheMisses |-> 0]

\* the parts a specification does not exercise stay as constructed
otherPartsInit ==
  /\ info = infoInit
  /\ analytics = analyticsInit
  /\ clients = <<>>
  /\ rooms = <<>>
  /\ sent = <<>>

----------------------------------------------------------------------------
(* Bounds of the model *)

\* seconds that pass in one Tick
TickSec == 125
\* number of call slots (async calls that can be in flight at once)
\* number of setImmediate callbacks that can be pending at once
MaxTasks == 1

\* call slots: the async calls that can be in flight at once
Procs == {1, 2}

\* cache keys and time to live the multi-level accessor is called with
MLKeys == {"k1", "k2", "k3"}
MLData == {"v1"}
MLTTL == 150

----------------------------------------------------------------------------
(* Values *)

\* cache keys the strategies are called with
CacheKeys == {"cache:a", "cache:b"}

\* JavaScript values a producer (fetchFn) or a writer's caller can supply:
\* a plain JSON value and NaN, which JSON cannot represent
Data == {"v1", "NaN"}

\* JavaScript null: the store's answer for an absent key, and JSON.parse("null")
Null == "<null>"

\* JSON.stringify(data): the text the engine stores
JSON_stringify(d) ==
  CASE d = "v1" -> "\"v1\""
    [] d = "NaN" -> "null"
    [] d = Null -> "null"

\* JSON.parse(text): the value the engine returns on a hit
JSON_parse(t) ==
  CASE t = "\"v1\"" -> "v1"
    [] t = "null" -> Null

\* default TTL parameter of the strategies (ttl = 300)
DefaultTTL == 300
TTLs == {DefaultTTL}

\* refreshThreshold, in percent (default 0.8)
DefaultThreshold == 80
Thresholds == {DefaultThreshold}

----------------------------------------------------------------------------
(* The key-value store (redis client calls of the engine)                  *)

\* an absent key; ttl -2 is what TTL answers for a missing key
Absent == [present |-> FALSE, val |-> "", num |-> 0, ttl |-> -2, src |-> ""]

\* redis.get(key): the stored string, or null
RedisGet(s, k) == IF s[k].present THEN s[k].val ELSE Null

\* redis.setEx(key, ttl, value); src is a history field: the value that was
\* serialised into the stored text
RedisSetEx(s, k, ttl, v, src) ==
  [s EXCEPT ![k] = [present |-> TRUE, val |-> v, num |-> 0, ttl |-> ttl, src |-> src]]

\* redis.ttl(key): remaining seconds, -1 without expiry, -2 when absent
RedisTtl(s, k) == s[k].ttl

\* JavaScript truthiness of a get() answer: null and "" are falsy
Truthy(x) == x # Null /\ x # ""

\* the store after sec seconds: entries whose time is up are gone
Expire(e, sec) ==
  IF e.present /\ e.ttl > 0
  THEN IF e.ttl - sec > 0 THEN [e EXCEPT !.ttl = e.ttl - sec] ELSE Absent
  ELSE e

----------------------------------------------------------------------------
(* Call slots *)

Idle == [op |-> "idle", pc |-> "idle"]

\* a new call takes the lowest free slot
Free(p) == calls[p] = Idle /\ \A q \in Procs : q < p => calls[q] # Idle

NoRes == [status |-> "none", data |-> "", cached |-> FALSE]
Ok(d, c) == [status |-> "ok", data |-> d, cached |-> c]
Thrown == [status |-> "throw", data |-> "", cached |-> FALSE]

\* the frame of a strategy call.  Program state: key, ttl, thr, data (the
\* data argument or the last result of fetchFn), tl (timeToLive), res.
\* History: n = invocations of fetchFn; sfail = a store call threw;
\* pfail = fetchFn or writeFn threw inside the try block; cfail = fetchFn
\* threw inside the catch block; seen = the value whose text get() answered
\* with; wrote = the entry this call wrote (Absent if none); persisted =
\* writeFn has returned
Frame(op, pc, k, ttl, thr, d) ==
  [op |-> op, pc |-> pc, key |-> k, ttl |-> ttl, thr |-> thr, data |-> d,
   tl |-> 0, n |-> 0, sfail |-> FALSE, pfail |-> FALSE, cfail |-> FALSE,
   seen |-> "", wrote |-> Absent, persisted |-> FALSE, res |-> NoRes]

\* a finished call returns its slot
Return(p) ==
  /\ calls[p].pc = "done"
  /\ calls' = [calls EXCEPT ![p] = Idle]
  /\ UNCHANGED <<store, tasks, notEngine>>

----------------------------------------------------------------------------
(* cacheAside(key, fetchFn, ttl)                                           *)

cacheAside(p) ==
  /\ Free(p)
  /\ \E k \in DOMAIN store, ttl \in TTLs :
       calls' = [calls EXCEPT ![p] = Frame("cacheAside", "get", k, ttl, 0, "")]
  /\ UNCHANGED <<store, tasks, notEngine>>

\* await this.redis.get(key); a hit returns the parsed text
cacheAsideGet(p) ==
  LET c == calls[p] IN
  /\ c.op = "cacheAside" /\ c.pc = "get"
  /\ \E ok \in BOOLEAN :
       IF ~ok
       THEN calls' = [calls EXCEPT ![p] = [c EXCEPT !.pc = "catch", !.sfail = TRUE]]
       ELSE LET cached == RedisGet(store, c.key) IN
            IF Truthy(cached)
            THEN calls' = [calls EXCEPT ![p] =
                     [c EXCEPT !.pc = "done", !.seen = store[c.key].src,
                               !.res = Ok(JSON_parse(cached), TRUE)]]
            ELSE calls' = [calls EXCEPT ![p] = [c EXCEPT !.pc = "fetch"]]
  /\ UNCHANGED <<store, tasks, notEngine>>

\* const data = await fetchFn()
cacheAsideFetch(p) ==
  LET c == calls[p] IN
  /\ c.op = "cacheAside" /\ c.pc = "fetch"
  /\ \/ \E d \in Data :
          calls' = [calls EXCEPT ![p] = [c EXCEPT !.pc = "set", !.data = d, !.n = c.n + 1]]
     \/ calls' = [calls EXCEPT ![p] = [c EXCEPT !.pc = "catch", !.pfail = TRUE, !.n = c.n + 1]]
  /\ UNCHANGED <<store, tasks, notEngine>>

\* cacheAsideSet with the store write left out
cacheAsideSet_skip(p) ==
  LET c == calls[p] IN
  /\ c.op = "cacheAside" /\ c.pc = "set"
  /\ calls' = [calls EXCEPT ![p] = [c EXCEPT !.pc = "done", !.res = Ok(c.data, FALSE)]]
  /\ UNCHANGED <<store, tasks, notEngine>>

\* await this.redis.setEx(key, ttl, JSON.stringify(data)); return
cacheAsideSet(p) ==
  LET c == calls[p] IN
  /\ c.op = "cacheAside" /\ c.pc = "set"
  /\ \E ok \in BOOLEAN :
       IF ok
       THEN /\ store' = RedisSetEx(store, c.key, c.ttl, JSON_stringify(c.data), c.data)
            /\ calls' = [calls EXCEPT ![p] =
                 [c EXCEPT !.pc = "done", !.wrote = store'[c.key], !.res = Ok(c.data, FALSE)]]
       ELSE /\ calls' = [calls EXCEPT ![p] = [c EXCEPT !.pc = "catch", !.sfail = TRUE]]
            /\ UNCHANGED store
  /\ UNCHANGED <<tasks, notEngine>>

\* cacheAsideCatch rethrowing the error instead of calling fetchFn
cacheAsideCatch_rethrow(p) ==
  LET c == calls[p] IN
  /\ c.op = "cacheAside" /\ c.pc = "catch"
  /\ calls' = [calls EXCEPT ![p] = [c EXCEPT !.pc = "done", !.res = Thrown]]
  /\ UNCHANGED <<store, tasks, notEngine>>

\* catch (error) { return { data: await fetchFn(), cached: false } }
cacheAsideCatch(p) ==
  LET c == calls[p] IN
  /\ c.op = "cacheAside" /\ c.pc = "catch"
  /\ \/ \E d \in Data :
          calls' = [calls EXCEPT ![p] =
             [c EXCEPT !.pc = "done", !.data = d, !.n = c.n + 1, !.res = Ok(d, FALSE)]]
     \/ calls' = [calls EXCEPT ![p] =
             [c EXCEPT !.pc = "done", !.n = c.n + 1, !.cfail = TRUE, !.res = Thrown]]
  /\ UNCHANGED <<store, tasks, notEngine>>

----------------------------------------------------------------------------
(* writeThrough(key, data, writeFn, ttl)                                   *)

writeThrough(p) ==
  /\ Free(p)
  /\ \E k \in DOMAIN store, ttl \in TTLs, d \in Data :
       calls' = [calls EXCEPT ![p] = Frame("writeThrough", "persist", k, ttl, 0, d)]
  /\ UNCHANGED <<store, tasks, notEngine>>

\* writeThroughPersist updating the cache although writeFn failed
writeThroughPersist_cachefirst(p) ==
  LET c == calls[p] IN
  /\ c.op = "writeThrough" /\ c.pc = "persist"
  /\ \/ /\ calls' = [calls EXCEPT ![p] = [c EXCEPT !.pc = "set", !.persisted = TRUE]]
        /\ UNCHANGED store
     \/ /\ store' = RedisSetEx(store, c.key, c.ttl, JSON_stringify(c.data), c.data)
        /\ calls' = [calls EXCEPT ![p] =
             [c EXCEPT !.pc = "done", !.pfail = TRUE, !.wrote = store'[c.key], !.res = Thrown]]
  /\ UNCHANGED <<tasks, notEngine>>

\* await writeFn(data); its failure is logged and rethrown
writeThroughPersist(p) ==
  LET c == calls[p] IN
  /\ c.op = "writeThrough" /\ c.pc = "persist"
  /\ \/ calls' = [calls EXCEPT ![p] = [c EXCEPT !.pc = "set", !.persisted = TRUE]]
     \/ calls' = [calls EXCEPT ![p] = [c EXCEPT !.pc = "done", !.pfail = TRUE, !.res = Thrown]]
  /\ UNCHANGED <<store, tasks, notEngine>>

\* await this.redis.setEx(key, ttl, JSON.stringify(data)); return true
writeThroughSet(p) ==
  LET c == calls[p] IN
  /\ c.op = "writeThrough" /\ c.pc = "set"
  /\ \E ok \in BOOLEAN :
       IF ok
       THEN /\ store' = RedisSetEx(store, c.key, c.ttl, JSON_stringify(c.data), c.data)
            /\ calls' = [calls EXCEPT ![p] =
                 [c EXCEPT !.pc = "done", !.wrote = store'[c.key], !.res = Ok("true", FALSE)]]
       ELSE /\ calls' = [calls EXCEPT ![p] =
                 [c EXCEPT !.pc = "done", !.sfail = TRUE, !.res = Thrown]]
            /\ UNCHANGED store
  /\ UNCHANGED <<tasks, notEngine>>

----------------------------------------------------------------------------
(* setImmediate callbacks *)

\* a pending callback: kind "persist" (writeBehind) or "refresh"
\* (refreshAhead); pc is the await it is at
Task(kind, pc, k, ttl, d) == [kind |-> kind, pc |-> pc, key |-> k, ttl |-> ttl, data |-> d]

\* the queue without its i-th callback
Without(q, i) == SubSeq(q, 1, i - 1) \o SubSeq(q, i + 1, Len(q))

----------------------------------------------------------------------------
(* writeBehind(key, data, writeFn, ttl)                                    *)

writeBehind(p) ==
  /\ Free(p)
  /\ \E k \in DOMAIN store, ttl \in TTLs, d \in Data :
       calls' = [calls EXCEPT ![p] = Frame("writeBehind", "set", k, ttl, 0, d)]
  /\ UNCHANGED <<store, tasks, notEngine>>

\* writeBehindSet awaiting writeFn(data) itself instead of scheduling it
writeBehindSet_sync(p) ==
  LET c == calls[p] IN
  /\ c.op = "writeBehind" /\ c.pc = "set"
  /\ \E ok \in BOOLEAN :
       IF ok
       THEN /\ store' = RedisSetEx(store, c.key, c.ttl, JSON_stringify(c.data), c.data)
            /\ calls' = [calls EXCEPT ![p] =
                 [c EXCEPT !.pc = "done", !.wrote = store'[c.key], !.persisted = TRUE,
                           !.res = Ok("true", FALSE)]]
       ELSE /\ calls' = [calls EXCEPT ![p] =
                 [c EXCEPT !.pc = "done", !.sfail = TRUE, !.res = Thrown]]
            /\ UNCHANGED store
  /\ UNCHANGED <<tasks, notEngine>>

\* await this.redis.setEx(...); setImmediate(writeFn(data)); return true
writeBehindSet(p) ==
  LET c == calls[p] IN
  /\ c.op = "writeBehind" /\ c.pc = "set"
  /\ \E ok \in BOOLEAN :
       IF ok
       THEN /\ Len(tasks) < MaxTasks
            /\ store' = RedisSetEx(store, c.key, c.ttl, JSON_stringify(c.data), c.data)
            /\ tasks' = Append(tasks, Task("persist", "write", c.key, c.ttl, c.data))
            /\ calls' = [calls EXCEPT ![p] =
                 [c EXCEPT !.pc = "done", !.wrote = store'[c.key], !.res = Ok("true", FALSE)]]
       ELSE /\ calls' = [calls EXCEPT ![p] =
                 [c EXCEPT !.pc = "done", !.sfail = TRUE, !.res = Thrown]]
            /\ UNCHANGED <<store, tasks>>
  /\ UNCHANGED notEngine

\* the callback: try { await writeFn(data) } catch { log }
writeBehindPersist(i) ==
  /\ i \in 1..Len(tasks)
  /\ tasks[i].kind = "persist"
  /\ \E ok \in BOOLEAN : tasks' = Without(tasks, i)
  /\ UNCHANGED <<store, calls, notEngine>>

----------------------------------------------------------------------------
(* refreshAhead(key, fetchFn, ttl, refreshThreshold)                       *)

\* timeToLive > 0 && timeToLive < ttl * (1 - refreshThreshold), with the
\* threshold in percent; for the thresholds of the model the floating-point
\* product decides every integer timeToLive as the exact product does
NeedsRefresh_nothreshold(tl, ttl, thr) == tl > 0 /\ tl < ttl

NeedsRefresh(tl, ttl, thr) == tl > 0 /\ tl * 100 < ttl * (100 - thr)

refreshAhead(p) ==
  /\ Free(p)
  /\ \E k \in DOMAIN store, ttl \in TTLs, thr \in Thresholds :
       calls' = [calls EXCEPT ![p] = Frame("refreshAhead", "ttl", k, ttl, thr, "")]
  /\ UNCHANGED <<store, tasks, notEngine>>

\* const timeToLive = await this.redis.ttl(key)
refreshAheadTtl(p) ==
  LET c == calls[p] IN
  /\ c.op = "refreshAhead" /\ c.pc = "ttl"
  /\ \E ok \in BOOLEAN :
       IF ok
       THEN calls' = [calls EXCEPT ![p] = [c EXCEPT !.pc = "get", !.tl = RedisTtl(store, c.key)]]
       ELSE calls' = [calls EXCEPT ![p] = [c EXCEPT !.pc = "catch", !.sfail = TRUE]]
  /\ UNCHANGED <<store, tasks, notEngine>>

\* const cached = await this.redis.get(key); on a hit schedule the refresh
\* when it is due and return the parsed text.  timeToLive is not read after
\* this step, so the frame drops it
refreshAheadGet(p) ==
  LET c == calls[p] IN
  /\ c.op = "refreshAhead" /\ c.pc = "get"
  /\ \E ok \in BOOLEAN :
       IF ~ok
       THEN /\ calls' = [calls EXCEPT ![p] = [c EXCEPT !.pc = "catch", !.tl = 0, !.sfail = TRUE]]
            /\ UNCHANGED tasks
       ELSE LET cached == RedisGet(store, c.key) IN
            IF Truthy(cached)
            THEN /\ IF NeedsRefresh(c.tl, c.ttl, c.thr)
                    THEN /\ Len(tasks) < MaxTasks
                         /\ tasks' = Append(tasks, Task("refresh", "fetch", c.key, c.ttl, ""))
                    ELSE UNCHANGED tasks
                 /\ calls' = [calls EXCEPT ![p] =
                      [c EXCEPT !.pc = "done", !.tl = 0, !.seen = store[c.key].src,
                                !.res = Ok(JSON_parse(cached), TRUE)]]
            ELSE /\ calls' = [calls EXCEPT ![p] = [c EXCEPT !.pc = "fetch", !.tl = 0]]
                 /\ UNCHANGED tasks
  /\ UNCHANGED <<store, notEngine>>

\* const data = await fetchFn()
refreshAheadFetch(p) ==
  LET c == calls[p] IN
  /\ c.op = "refreshAhead" /\ c.pc = "fetch"
  /\ \/ \E d \in Data :
          calls' = [calls EXCEPT ![p] = [c EXCEPT !.pc = "set", !.data = d, !.n = c.n + 1]]
     \/ calls' = [calls EXCEPT ![p] = [c EXCEPT !.pc = "catch", !.pfail = TRUE, !.n = c.n + 1]]
  /\ UNCHANGED <<store, tasks, notEngine>>

\* await this.redis.setEx(key, ttl, JSON.stringify(data)); return
refreshAheadSet(p) ==
  LET c == calls[p] IN
  /\ c.op = "refreshAhead" /\ c.pc = "set"
  /\ \E ok \in BOOLEAN :
       IF ok
       THEN /\ store' = RedisSetEx(store, c.key, c.ttl, JSON_stringify(c.data), c.data)
            /\ calls' = [calls EXCEPT ![p] =
                 [c EXCEPT !.pc = "done", !.wrote = store'[c.key], !.res = Ok(c.data, FALSE)]]
       ELSE /\ calls' = [calls EXCEPT ![p] = [c EXCEPT !.pc = "catch", !.sfail = TRUE]]
            /\ UNCHANGED store
  /\ UNCHANGED <<tasks, notEngine>>

\* catch (error) { return { data: await fetchFn(), cached: false } }
refreshAheadCatch(p) ==
  LET c == calls[p] IN
  /\ c.op = "refreshAhead" /\ c.pc = "catch"
  /\ \/ \E d \in Data :
          calls' = [calls EXCEPT ![p] =
             [c EXCEPT !.pc = "done", !.data = d, !.n = c.n + 1, !.res = Ok(d, FALSE)]]
     \/ calls' = [calls EXCEPT ![p] =
             [c EXCEPT !.pc = "done", !.n = c.n + 1, !.cfail = TRUE, !.res = Thrown]]
  /\ UNCHANGED <<store, tasks, notEngine>>

\* the callback, first await: const freshData = await fetchFn(); a failure
\* is logged and ends the callback
refreshAheadBgFetch(i) ==
  /\ i \in 1..Len(tasks)
  /\ tasks[i].kind = "refresh" /\ tasks[i].pc = "fetch"
  /\ \/ \E d \in Data : tasks' = [tasks EXCEPT ![i] = [@ EXCEPT !.pc = "set", !.data = d]]
     \/ tasks' = Without(tasks, i)
  /\ UNCHANGED <<store, calls, notEngine>>

\* the callback, second await: await this.redis.setEx(key, ttl, fresh text)
refreshAheadBgSet(i) ==
  /\ i \in 1..Len(tasks)
  /\ tasks[i].kind = "refresh" /\ tasks[i].pc = "set"
  /\ \E ok \in BOOLEAN :
       IF ok
       THEN store' = RedisSetEx(store, tasks[i].key, tasks[i].ttl,
                                JSON_stringify(tasks[i].data), tasks[i].data)
       ELSE UNCHANGED store
  /\ tasks' = Without(tasks, i)
  /\ UNCHANGED <<calls, notEngine>>

----------------------------------------------------------------------------
(* Passage of time *)

Tick ==
  /\ \E k \in DOMAIN store : store[k].present /\ store[k].ttl > 0
  /\ store' = [k \in DOMAIN store |-> Expire(store[k], TickSec)]
  /\ UNCHANGED <<calls, tasks, notEngine>>

----------------------------------------------------------------------------
(* Specification of the cache policy engine: the four strategies, their    *)
(* callbacks and the clock, interleaved at every await                     *)

Init ==
  /\ store = [k \in {"cache:a"} |-> Absent]
  /\ calls = [p \in Procs |-> Idle]
  /\ tasks = <<>>
  /\ memoryCache = <<>>
  /\ hist = <<>>
  /\ otherPartsInit

Next ==
  \/ \E p \in Procs : cacheAside(p)
  \/ \E p \in Procs : cacheAsideGet(p)
  \/ \E p \in Procs : cacheAsideFetch(p)
  \/ \E p \in Procs : cacheAsideSet(p)
  \/ \E p \in Procs : cacheAsideCatch(p)
  \/ \E p \in Procs : writeThrough(p)
  \/ \E p \in Procs : writeThroughPersist(p)
  \/ \E p \in Procs : writeThroughSet(p)
  \/ \E p \in Procs : writeBehind(p)
  \/ \E p \in Procs : writeBehindSet(p)
  \/ \E i \in 1..MaxTasks : writeBehindPersist(i)
  \/ \E p \in Procs : refreshAhead(p)
  \/ \E p \in Procs : refreshAheadTtl(p)
  \/ \E p \in Procs : refreshAheadGet(p)
  \/ \E p \in Procs : refreshAheadFetch(p)
  \/ \E p \in Procs : refreshAheadSet(p)
  \/ \E p \in Procs : refreshAheadCatch(p)
  \/ \E i \in 1..MaxTasks : refreshAheadBgFetch(i)
  \/ \E i \in 1..MaxTasks : refreshAheadBgSet(i)
  \/ \E p \in Procs : Return(p)
  \/ Tick

Spec == Init /\ [][Next]_vars

----------------------------------------------------------------------------
(* Specification of cacheAside alone: concurrent cacheAside calls over two *)
(* keys and the clock                                                      *)

InitAside ==
  /\ store = [k \in CacheKeys |-> Absent]
  /\ calls = [p \in Procs |-> Idle]
  /\ tasks = <<>>
  /\ memoryCache = <<>>
  /\ hist = <<>>
  /\ otherPartsInit

NextAside ==
  \/ \E p \in Procs : cacheAside(p)
  \/ \E p \in Procs : cacheAsideGet(p)
  \/ \E p \in Procs : cacheAsideFetch(p)
  \/ \E p \in Procs : cacheAsideSet(p)
  \/ \E p \in Procs : cacheAsideCatch(p)
  \/ \E p \in Procs : Return(p)
  \/ Tick

SpecAside == InitAside /\ [][NextAside]_vars

----------------------------------------------------------------------------
(* Properties of the cache policy engine *)

Calls(op) == {p \in Procs : calls[p].op = op}
Done(op) == {p \in Calls(op) : calls[p].pc = "done"}

\* the entry a strategy writes for data d with ttl seconds
Entry(d, ttl) ==
  [present |-> TRUE, val |-> JSON_stringify(d), num |-> 0, ttl |-> ttl, src |-> d]

ThmC2 ==
  \A p \in Done("cacheAside") :
    LET c == calls[p] IN
    (c.sfail /\ ~c.pfail /\ ~c.cfail) => c.n >= 1 /\ c.res = Ok(c.data, FALSE)

\* a cacheAside that completed although its store write threw
WitC2 ==
  \E p \in Done("cacheAside") :
    calls[p].sfail /\ calls[p].n = 2 /\ calls[p].res.status = "ok"

\* C5: writeThrough writes the cache entry only after writeFn returned; when
\* writeFn throws the call throws and has written nothing to the cache
ThmC5 ==
  \A p \in Calls("writeThrough") :
    LET c == calls[p] IN
    /\ c.wrote # Absent => c.persisted /\ c.wrote = Entry(c.data, c.ttl)
    /\ c.pc = "persist" => c.wrote = Absent
    /\ c.pfail => c.pc = "done" /\ c.res = Thrown /\ c.wrote = Absent /\ ~c.persisted

\* a writeThrough that threw because writeFn threw, next to an older entry
WitC5 ==
  \E p \in Done("writeThrough") :
    calls[p].pfail /\ store[calls[p].key].present

\* C6: the step in which writeBehind returns has written the entry, so that
\* a get of the key answers the new text, and has only queued writeFn(data);
\* the callback, whatever writeFn does, changes no call and no entry
ThmC6 ==
  [][
      /\ \A p \in Calls("writeBehind") :
          LET c == calls[p] IN
          (c.pc = "set" /\ calls'[p].pc = "done" /\ calls'[p].res.status = "ok") =>
            /\ RedisGet(store', c.key) = JSON_stringify(c.data)
            /\ store'[c.key].ttl = c.ttl
            /\ ~calls'[p].persisted
            /\ tasks' = Append(tasks, Task("persist", "write", c.key, c.ttl, c.data))
      /\ \A i \in 1..Len(tasks) :
          (tasks[i].kind = "persist" /\ tasks' = Without(tasks, i)) =>
            calls' = calls /\ store' = store
      /\ \A p \in Procs :
          (calls'[p].op = "writeBehind" /\ calls'[p].res = Thrown) => calls'[p].sfail
     ]_vars

\* writeBehind has returned, writeFn has not run yet, the entry is readable
WitC6 ==
  \E p \in Done("writeBehind") :
    LET c == calls[p] IN
    /\ c.res.status = "ok"
    /\ Len(tasks) > 0 /\ tasks[Len(tasks)] = Task("persist", "write", c.key, c.ttl, c.data)
    /\ RedisGet(store, c.key) = JSON_stringify(c.data)

\* C7: refreshAhead on a hit returns the parsed entry with cached=true and
\* queues a refresh iff 0 < timeToLive < ttl*(1-threshold); the refresh
\* callback changes no call, and changes the entry only by rewriting it with
\* the fresh data and the full TTL; on a miss with the store working and
\* fetchFn succeeding it fetches once, writes and returns cached=false
ThmC7 ==
  [][
      /\ \A p \in Calls("refreshAhead") :
          LET c == calls[p] IN
          (c.pc = "get" /\ calls'[p].pc = "done") =>
            /\ calls'[p].res = Ok(JSON_parse(RedisGet(store, c.key)), TRUE)
            /\ calls'[p].n = 0
            /\ IF c.tl > 0 /\ c.tl * 100 < c.ttl * (100 - c.thr)
               THEN tasks' = Append(tasks, Task("refresh", "fetch", c.key, c.ttl, ""))
               ELSE tasks' = tasks
      /\ \A i \in 1..Len(tasks) :
          /\ (tasks[i].kind = "refresh" /\ tasks' = Without(tasks, i)) =>
               /\ calls' = calls
               /\ \/ store' = store
                  \/ /\ tasks[i].pc = "set"
                     /\ store' = [store EXCEPT ![tasks[i].key] =
                                     Entry(tasks[i].data, tasks[i].ttl)]
          /\ (Len(tasks') = Len(tasks) /\ tasks'[i] # tasks[i]) =>
               calls' = calls /\ store' = store
      /\ \A p \in Procs :
          LET c == calls'[p] IN
          (c.op = "refreshAhead" /\ c.pc = "done" /\ c.seen = "" /\ ~c.sfail /\ ~c.pfail) =>
            c.n = 1 /\ c.res = Ok(c.data, FALSE) /\ c.wrote = Entry(c.data, c.ttl)
     ]_vars

\* a refreshAhead that answered from the entry and queued its refresh
WitC7 ==
  \E p \in Done("refreshAhead") :
    LET c == calls[p] IN
    /\ c.res.cached /\ RedisTtl(store, c.key) = DefaultTTL - 2 * TickSec
    /\ Len(tasks) > 0 /\ tasks[Len(tasks)] = Task("refresh", "fetch", c.key, c.ttl, "")

\* C12: a cache engine call in which a store read or write failed, while
\* the producer or persist function did not, does not fail to its caller
CexC12 ==
  \A p \in Procs :
    LET c == calls[p] IN
    (/\ c.op \in {"cacheAside", "writeThrough", "writeBehind", "refreshAhead"}
     /\ c.pc = "done" /\ c.sfail /\ ~c.pfail /\ ~c.cfail) => c.res.status = "ok"

----------------------------------------------------------------------------
(* Rate limiter: rateLimit(service, userId), src/src/index.js              *)

\* yamlConfig: two configured services, one with rateLimit 2 and one with
\* rateLimit 0; any other service is not configured
yamlConfig == [weather |-> [rateLimit |-> 2], open |-> [rateLimit |-> 0]]

\* the fallback of yamlConfig[service]?.rateLimit || 100
DefaultRateLimit == 100

\* seconds of redis.expire(key, 60)
WindowSec == 60

\* the limit with a configured 0 taken as a limit of 0
Limit_zero(service) ==
  IF service \in DOMAIN yamlConfig /\ "rateLimit" \in DOMAIN yamlConfig[service]
  THEN yamlConfig[service].rateLimit
  ELSE DefaultRateLimit

\* const limit = yamlConfig[service]?.rateLimit || 100: a missing service,
\* a missing rateLimit and a rateLimit of 0 are all falsy
Limit(service) ==
  IF service \in DOMAIN yamlConfig /\ "rateLimit" \in DOMAIN yamlConfig[service]
     /\ yamlConfig[service].rateLimit # 0
  THEN yamlConfig[service].rateLimit
  ELSE DefaultRateLimit

\* const key = `rl:${service}:${userId}`
RateKey(service, userId) == "rl:" \o service \o ":" \o userId

\* the (service, userId) pairs rateLimit is called with
RateCallers == {<<"weather", "u1">>, <<"open", "u1">>}

\* calls beyond the limit that are still issued in one window
MaxOver == 2

\* redis.incr(key): an absent key counts from 0 and gets no expiry
RedisIncr(s, k) ==
  IF s[k].present
  THEN [s EXCEPT ![k].num = @ + 1]
  ELSE [s EXCEPT ![k] = [present |-> TRUE, val |-> "", num |-> 1, ttl |-> -1, src |-> ""]]

\* redis.expire(key, seconds)
RedisExpire(s, k, sec) ==
  IF s[k].present THEN [s EXCEPT ![k].ttl = sec] ELSE s

\* history of a key: n = calls whose incr was applied since the key was
\* last absent; clean = no store call on the key has failed since then
NoHist == [n |-> 0, clean |-> TRUE]

\* frame of a rateLimit call: res is the value of current > limit, computed
\* from the answer of incr; pc "expire" is the branch current === 1
rateLimit(p) ==
  /\ Free(p)
  /\ \E sv \in RateCallers :
       LET k == RateKey(sv[1], sv[2]) IN
       /\ store[k].num < Limit(sv[1]) + MaxOver
       /\ calls' = [calls EXCEPT ![p] =
            [op |-> "rateLimit", pc |-> "incr", service |-> sv[1], userId |-> sv[2],
             key |-> k, sfail |-> FALSE, res |-> FALSE]]
  /\ UNCHANGED <<store, tasks, memoryCache, hist, otherParts>>

\* rateLimitIncr setting the expiry at every call, whatever incr answered
rateLimitIncr_everycall(p) ==
  LET c == calls[p] IN
  /\ c.op = "rateLimit" /\ c.pc = "incr"
  /\ \E ok \in BOOLEAN :
       IF ok
       THEN /\ store' = RedisIncr(store, c.key)
            /\ hist' = [hist EXCEPT ![c.key].n = @ + 1]
            /\ LET current == store'[c.key].num IN
               calls' = [calls EXCEPT ![p] =
                 [c EXCEPT !.pc = "expire", !.res = current > Limit(c.service)]]
       ELSE /\ calls' = [calls EXCEPT ![p] = [c EXCEPT !.pc = "done", !.sfail = TRUE, !.res = FALSE]]
            /\ hist' = [hist EXCEPT ![c.key].clean = @ /\ ~store[c.key].present]
            /\ UNCHANGED store
  /\ UNCHANGED <<tasks, memoryCache, otherParts>>

\* rateLimitIncr answering "deny" when the store fails
rateLimitIncr_failclosed(p) ==
  LET c == calls[p] IN
  /\ c.op = "rateLimit" /\ c.pc = "incr"
  /\ \E ok \in BOOLEAN :
       IF ok
       THEN /\ store' = RedisIncr(store, c.key)
            /\ hist' = [hist EXCEPT ![c.key].n = @ + 1]
            /\ LET current == store'[c.key].num IN
               calls' = [calls EXCEPT ![p] =
                 [c EXCEPT !.pc = IF current = 1 THEN "expire" ELSE "done",
                           !.res = current > Limit(c.service)]]
       ELSE /\ calls' = [calls EXCEPT ![p] = [c EXCEPT !.pc = "done", !.sfail = TRUE, !.res = TRUE]]
            /\ hist' = [hist EXCEPT ![c.key].clean = @ /\ ~store[c.key].present]
            /\ UNCHANGED store
  /\ UNCHANGED <<tasks, memoryCache, otherParts>>

\* const current = await redis.incr(key); when current is not 1 also
\* return current > limit; a failure is caught: return false
rateLimitIncr(p) ==
  LET c == calls[p] IN
  /\ c.op = "rateLimit" /\ c.pc = "incr"
  /\ \E ok \in BOOLEAN :
       IF ok
       THEN /\ store' = RedisIncr(store, c.key)
            /\ hist' = [hist EXCEPT ![c.key].n = @ + 1]
            /\ LET current == store'[c.key].num IN
               calls' = [calls EXCEPT ![p] =
                 [c EXCEPT !.pc = IF current = 1 THEN "expire" ELSE "done",
                           !.res = current > Limit(c.service)]]
       ELSE /\ calls' = [calls EXCEPT ![p] = [c EXCEPT !.pc = "done", !.sfail = TRUE, !.res = FALSE]]
            /\ hist' = [hist EXCEPT ![c.key].clean = @ /\ ~store[c.key].present]
            /\ UNCHANGED store
  /\ UNCHANGED <<tasks, memoryCache, otherParts>>

\* if (current === 1) await redis.expire(key, 60); return current > limit;
\* a failure is caught: return false
rateLimitExpire(p) ==
  LET c == calls[p] IN
  /\ c.op = "rateLimit" /\ c.pc = "expire"
  /\ \E ok \in BOOLEAN :
       IF ok
       THEN /\ store' = RedisExpire(store, c.key, WindowSec)
            /\ calls' = [calls EXCEPT ![p] = [c EXCEPT !.pc = "done"]]
            /\ UNCHANGED <<hist, otherParts>>
       ELSE /\ calls' = [calls EXCEPT ![p] = [c EXCEPT !.pc = "done", !.sfail = TRUE, !.res = FALSE]]
            /\ hist' = [hist EXCEPT ![c.key].clean = FALSE]
            /\ UNCHANGED store
  /\ UNCHANGED <<tasks, memoryCache, otherParts>>

\* time passes; the history of a key ends with the key
TickRate ==
  /\ \E k \in DOMAIN store : store[k].present /\ store[k].ttl > 0
  /\ store' = [k \in DOMAIN store |-> Expire(store[k], TickSec)]
  /\ hist' = [k \in DOMAIN hist |-> IF store'[k].present THEN hist[k] ELSE NoHist]
  /\ UNCHANGED <<calls, tasks, memoryCache, otherParts>>

ReturnRate(p) ==
  /\ calls[p].op = "rateLimit" /\ calls[p].pc = "done"
  /\ calls' = [calls EXCEPT ![p] = Idle]
  /\ UNCHANGED <<store, tasks, memoryCache, hist, otherParts>>

RateKeys == {RateKey(sv[1], sv[2]) : sv \in RateCallers}

InitRate ==
  /\ store = [k \in RateKeys |-> Absent]
  /\ calls = [p \in Procs |-> Idle]
  /\ tasks = <<>>
  /\ memoryCache = <<>>
  /\ hist = [k \in RateKeys |-> NoHist]
  /\ otherPartsInit

NextRate ==
  \/ \E p \in Procs : rateLimit(p)
  \/ \E p \in Procs : rateLimitIncr(p)
  \/ \E p \in Procs : rateLimitExpire(p)
  \/ \E p \in Procs : ReturnRate(p)
  \/ TickRate

SpecRate == InitRate /\ [][NextRate]_vars

----------------------------------------------------------------------------
(* Properties of the rate limiter *)

\* the step in which call p gets the answer of incr
IncrAnswered(p) ==
  /\ calls[p].op = "rateLimit" /\ calls[p].pc = "incr"
  /\ calls'[p].pc # "incr" /\ ~calls'[p].sfail

\* the step in which the expire of call p succeeds
ExpireAnswered(p) ==
  /\ calls[p].op = "rateLimit" /\ calls[p].pc = "expire"
  /\ calls'[p].pc = "done" /\ ~calls'[p].sfail

\* every counter key whose store calls all succeeded, and whose first call
\* is not still before its expire, runs out within the 60 seconds
WindowSet ==
  \A k \in RateKeys :
    (store[k].present /\ hist[k].clean
       /\ \A p \in Procs : ~(calls[p].op = "rateLimit" /\ calls[p].pc = "expire"
                             /\ calls[p].key = k))
    => store[k].ttl > 0 /\ store[k].ttl <= 60

\* C3 as stated: with the store working the Nth call of a window returns
\* true (denied) iff N exceeds the service's configured limit, 100 when none
\* is configured; the window ends 60 seconds after its first call and the
\* next call is number 1 again
CexC3 ==
  [][
      /\ \A p \in Procs :
           /\ (IncrAnswered(p) /\ hist[calls[p].key].clean) =>
                 LET limit == IF calls[p].service \in DOMAIN yamlConfig
                              THEN yamlConfig[calls[p].service].rateLimit ELSE 100
                 IN  calls'[p].res = (hist'[calls[p].key].n > limit)
           /\ ExpireAnswered(p) => calls'[p].res = calls[p].res
      /\ WindowSet'
    ]_vars

\* C3 amended: the limit is the configured rateLimit when that is not 0,
\* and 100 when it is 0 or not configured
ThmC3 ==
  [][
      /\ \A p \in Procs :
           /\ (IncrAnswered(p) /\ hist[calls[p].key].clean) =>
                 LET sv == calls[p].service
                     limit == IF sv \in DOMAIN yamlConfig /\ yamlConfig[sv].rateLimit # 0
                              THEN yamlConfig[sv].rateLimit ELSE 100
                 IN  calls'[p].res = (hist'[calls[p].key].n > limit)
           /\ ExpireAnswered(p) => calls'[p].res = calls[p].res
      /\ WindowSet'
    ]_vars

\* call 101 of a window of the service configured with rateLimit 0 is denied
WitC3 ==
  \E p \in Procs :
    /\ calls[p].op = "rateLimit" /\ calls[p].pc = "done" /\ calls[p].service = "open"
    /\ calls[p].res /\ hist[calls[p].key].clean /\ hist[calls[p].key].n = 101

\* C4: a rateLimit whose incr or expire threw returns false, whatever the
\* counter is
ThmC4 ==
  \A p \in Calls("rateLimit") :
    calls[p].sfail => calls[p].pc = "done" /\ calls[p].res = FALSE

\* a rateLimit that allowed the request, its store call having failed, with
\* the counter above the limit
WitC4 ==
  \E p \in Calls("rateLimit") :
    calls[p].sfail /\ calls[p].pc = "done" /\ store[calls[p].key].num > Limit(calls[p].service)

----------------------------------------------------------------------------
(* Multi-level accessor: createMultiLevel(), src/src/cache/strategies.js   *)

\* const maxMemoryEntries = 100, scaled down to a capacity TLC can fill
maxMemoryEntries == 2

\* expires: Date.now() + 60000, in seconds
MemorySec == 60

\* what `this` is inside get and set.  They are methods of the object
\* literal that createMultiLevel returns, so in accessor.get(key) `this` is
\* that object, which has no redis and no logger property; only a caller
\* that invokes them with the CacheStrategies instance as receiver (call,
\* bind) reaches the store
Receivers == {"accessor", "engine"}

\* memoryCache is a Map: a sequence of [key, data, left] in insertion order,
\* left being the seconds until expires
MapHas(m, k) == \E i \in 1..Len(m) : m[i].key = k
MapIndex(m, k) == CHOOSE i \in 1..Len(m) : m[i].key = k
MapGet(m, k) == m[MapIndex(m, k)]
MapDelete(m, k) == IF MapHas(m, k) THEN Without(m, MapIndex(m, k)) ELSE m
\* Map.set keeps the position of a key that is already there
MapSet(m, k, d) ==
  LET e == [key |-> k, data |-> d, left |-> MemorySec] IN
  IF MapHas(m, k) THEN [m EXCEPT ![MapIndex(m, k)] = e] ELSE Append(m, e)
MapKeys(m) == {m[i].key : i \in 1..Len(m)}

\* results of get: { data, level, cached: true }, or null
Level(d, l) == [status |-> "ok", data |-> d, level |-> l, cached |-> TRUE]
NullRes == [status |-> "ok", data |-> Null, level |-> "", cached |-> FALSE]
Rejected == [status |-> "throw", data |-> "", level |-> "", cached |-> FALSE]
Undefined == [status |-> "ok", data |-> "undefined", level |-> "", cached |-> FALSE]

MLFrame(op, pc, k, self, d, res) ==
  [op |-> op, pc |-> pc, key |-> k, self |-> self, data |-> d, sfail |-> FALSE,
   seen |-> "", res |-> res]

\* get(key) up to its first await: answer from L1, or drop the expired
\* entry and go on to this.redis.get(key).  Without a redis on `this` that
\* throws a TypeError inside the try, and the catch block throws the next
\* one at this.logger.error: the call rejects
mlGet(p) ==
  /\ Free(p)
  /\ \E k \in DOMAIN store, self \in Receivers :
       IF MapHas(memoryCache, k) /\ MapGet(memoryCache, k).left > 0
       THEN /\ calls' = [calls EXCEPT ![p] =
                 MLFrame("mlGet", "done", k, self, "", Level(MapGet(memoryCache, k).data, "L1"))]
            /\ UNCHANGED <<memoryCache, otherParts>>
       ELSE /\ memoryCache' = MapDelete(memoryCache, k)
            /\ calls' = [calls EXCEPT ![p] =
                 IF self = "engine"
                 THEN MLFrame("mlGet", "l2", k, self, "", NullRes)
                 ELSE MLFrame("mlGet", "done", k, self, "", Rejected)]
  /\ UNCHANGED <<store, tasks, hist, otherParts>>

\* mlGetL2 promoting without making room
mlGetL2_noevict(p) ==
  LET c == calls[p] IN
  /\ c.op = "mlGet" /\ c.pc = "l2"
  /\ \E ok \in BOOLEAN :
       LET cached == RedisGet(store, c.key) IN
       IF ok /\ Truthy(cached)
       THEN /\ memoryCache' = MapSet(memoryCache, c.key, JSON_parse(cached))
            /\ calls' = [calls EXCEPT ![p] =
                 [c EXCEPT !.pc = "done", !.seen = store[c.key].src,
                           !.res = Level(JSON_parse(cached), "L2")]]
       ELSE /\ calls' = [calls EXCEPT ![p] = [c EXCEPT !.pc = "done", !.sfail = ~ok]]
            /\ UNCHANGED <<memoryCache, otherParts>>
  /\ UNCHANGED <<store, tasks, hist, otherParts>>

\* const cached = await this.redis.get(key): a hit is parsed, promoted to
\* L1 (after deleting the first key of a full Map) and returned; a miss, or
\* a failure (logged), returns null
mlGetL2(p) ==
  LET c == calls[p] IN
  /\ c.op = "mlGet" /\ c.pc = "l2"
  /\ \E ok \in BOOLEAN :
       LET cached == RedisGet(store, c.key) IN
       IF ok /\ Truthy(cached)
       THEN /\ memoryCache' =
                 MapSet(IF Len(memoryCache) >= maxMemoryEntries
                        THEN Tail(memoryCache) ELSE memoryCache,
                        c.key, JSON_parse(cached))
            /\ calls' = [calls EXCEPT ![p] =
                 [c EXCEPT !.pc = "done", !.seen = store[c.key].src,
                           !.res = Level(JSON_parse(cached), "L2")]]
       ELSE /\ calls' = [calls EXCEPT ![p] = [c EXCEPT !.pc = "done", !.sfail = ~ok]]
            /\ UNCHANGED <<memoryCache, otherParts>>
  /\ UNCHANGED <<store, tasks, hist, otherParts>>

\* set(key, data, ttl) up to its first await: memoryCache.set, then
\* this.redis.setEx, which rejects the call when `this` has no redis
mlSet(p) ==
  /\ Free(p)
  /\ \E k \in DOMAIN store, d \in MLData, self \in Receivers :
       /\ memoryCache' = MapSet(memoryCache, k, d)
       /\ calls' = [calls EXCEPT ![p] =
            IF self = "engine"
            THEN MLFrame("mlSet", "l2", k, self, d, Undefined)
            ELSE MLFrame("mlSet", "done", k, self, d, Rejected)]
  /\ UNCHANGED <<store, tasks, hist, otherParts>>

\* await this.redis.setEx(key, ttl, JSON.stringify(data)); a failure is
\* logged
mlSetL2(p) ==
  LET c == calls[p] IN
  /\ c.op = "mlSet" /\ c.pc = "l2"
  /\ \E ok \in BOOLEAN :
       /\ store' = IF ok THEN RedisSetEx(store, c.key, MLTTL, JSON_stringify(c.data), c.data)
                         ELSE store
       /\ calls' = [calls EXCEPT ![p] = [c EXCEPT !.pc = "done", !.sfail = ~ok]]
  /\ UNCHANGED <<tasks, memoryCache, hist, otherParts>>

\* clear()
mlClear ==
  /\ memoryCache # <<>>
  /\ memoryCache' = <<>>
  /\ UNCHANGED <<store, calls, tasks, hist, otherParts>>

\* time passes for the store and for the expires of the L1 entries, which
\* stay in the Map
TickML ==
  /\ \/ \E k \in DOMAIN store : store[k].present /\ store[k].ttl > 0
     \/ \E i \in 1..Len(memoryCache) : memoryCache[i].left > 0
  /\ store' = [k \in DOMAIN store |-> Expire(store[k], TickSec)]
  /\ memoryCache' = [i \in 1..Len(memoryCache) |->
        [memoryCache[i] EXCEPT !.left = IF @ > TickSec THEN @ - TickSec ELSE 0]]
  /\ UNCHANGED <<calls, tasks, hist, otherParts>>

ReturnML(p) ==
  /\ calls[p].op \in {"mlGet", "mlSet"} /\ calls[p].pc = "done"
  /\ calls' = [calls EXCEPT ![p] = Idle]
  /\ UNCHANGED <<store, tasks, memoryCache, hist, otherParts>>

InitML ==
  /\ store = [k \in MLKeys |-> Absent]
  /\ calls = [p \in Procs |-> Idle]
  /\ tasks = <<>>
  /\ memoryCache = <<>>
  /\ hist = <<>>
  /\ otherPartsInit

NextML ==
  \/ \E p \in Procs : mlGet(p)
  \/ \E p \in Procs : mlGetL2(p)
  \/ \E p \in Procs : mlSet(p)
  \/ \E p \in Procs : mlSetL2(p)
  \/ \E p \in Procs : ReturnML(p)
  \/ mlClear
  \/ TickML

SpecML == InitML /\ [][NextML]_vars

----------------------------------------------------------------------------
(* Properties of the multi-level accessor *)

\* C8: L1 never holds more than maxMemoryEntries entries, and a step that
\* inserts a key and drops another drops the oldest-inserted one
CexC8 ==
  [][
      /\ Len(memoryCache') <= maxMemoryEntries
      /\ (MapKeys(memoryCache') \ MapKeys(memoryCache) # {}) =>
            \A k \in MapKeys(memoryCache) \ MapKeys(memoryCache') : k = memoryCache[1].key
    ]_vars

\* the step in which call p, an op, returns
Returns(p, op) ==
  calls'[p].op = op /\ calls'[p].pc = "done" /\ calls[p] # calls'[p]

\* C9 on the calls in R: get answers from an unexpired L1 entry, otherwise
\* from the store, promoting the value into L1 for 60 seconds, otherwise
\* with null; set puts the value into L1 and, the store working, into the
\* store
GetSetContract(R) ==
  \A p \in Procs :
    LET c == calls'[p]
        k == c.key
    IN
    /\ (Returns(p, "mlGet") /\ c.self \in R) =>
         IF calls[p] = Idle /\ MapHas(memoryCache, k) /\ MapGet(memoryCache, k).left > 0
         THEN c.res = Level(MapGet(memoryCache, k).data, "L1")
         ELSE IF ~c.sfail /\ store[k].present
         THEN /\ c.res = Level(JSON_parse(store[k].val), "L2")
              /\ MapHas(memoryCache', k)
              /\ MapGet(memoryCache', k) =
                   [key |-> k, data |-> JSON_parse(store[k].val), left |-> 60]
         ELSE c.res = NullRes
    /\ (calls[p] = Idle /\ c.op = "mlSet" /\ c.self \in R) =>
         MapHas(memoryCache', k) /\ MapGet(memoryCache', k) = [key |-> k, data |-> c.data, left |-> 60]
    /\ (Returns(p, "mlSet") /\ c.self \in R) =>
         /\ c.res = Undefined
         /\ ~c.sfail => store'[k].present /\ store'[k].val = JSON_stringify(c.data)

\* C9: the contract of get and set, on the accessor as createMultiLevel
\* returns it and however it is invoked
CexC9 == [][GetSetContract(Receivers)]_vars

----------------------------------------------------------------------------
(* Pattern invalidation: invalidatePattern(pattern)                        *)

\* the keys of the store, in the order the store's scan walks them
ScanOrder == <<"b1", "a1", "c2", "a2">>
InvKeys == {ScanOrder[i] : i \in 1..Len(ScanOrder)}

\* the characters of a key or of a glob
Chars(str) ==
  CASE str = "a1" -> <<"a", "1">>
    [] str = "a2" -> <<"a", "2">>
    [] str = "b1" -> <<"b", "1">>
    [] str = "c2" -> <<"c", "2">>
    [] str = "a*" -> <<"a", "*">>
    [] str = "*1" -> <<"*", "1">>
    [] str = "?2" -> <<"?", "2">>
    [] str = "*" -> <<"*">>

\* the globs invalidatePattern is called with
Patterns == {"a*", "*1", "?2", "*"}

\* glob matching of the store's MATCH option: * is any run of characters,
\* ? any one character
RECURSIVE GlobMatch(_, _)
GlobMatch(pat, str) ==
  IF pat = <<>> THEN str = <<>>
  ELSE IF Head(pat) = "*"
       THEN GlobMatch(Tail(pat), str) \/ (str # <<>> /\ GlobMatch(pat, Tail(str)))
       ELSE /\ str # <<>>
            /\ Head(pat) = "?" \/ Head(pat) = Head(str)
            /\ GlobMatch(Tail(pat), Tail(str))

Matches(pattern, k) == GlobMatch(Chars(pattern), Chars(k))

\* most keys the store looks at in one scan round (COUNT is only a hint)
MaxBatch == 2

\* redis.scan(cursor, { MATCH, COUNT }) looking at n keys: the cursor to
\* go on with, 0 at the end of the keyspace, and the matching keys found
RedisScan(s, cursor, pattern, n) ==
  LET last == IF cursor + n >= Len(ScanOrder) THEN Len(ScanOrder) ELSE cursor + n
      found == SelectSeq(SubSeq(ScanOrder, cursor + 1, last),
                         LAMBDA k : s[k].present /\ Matches(pattern, k))
  IN  [cursor |-> IF last = Len(ScanOrder) THEN 0 ELSE last, keys |-> found]

\* redis.del(keys)
RedisDel(s, keys) ==
  [k \in DOMAIN s |-> IF \E i \in 1..Len(keys) : keys[i] = k THEN Absent ELSE s[k]]

\* frame of an invalidatePattern call: cursor, deleted and the keys of the
\* last scan are program state; before (the store when the call began) and
\* rounds (scan rounds so far) are history
invalidatePattern(p) ==
  /\ p = 1 /\ Free(p)
  /\ \E pattern \in Patterns :
       calls' = [calls EXCEPT ![p] =
          [op |-> "invalidatePattern", pc |-> "scan", pattern |-> pattern, cursor |-> 0,
           deleted |-> 0, keys |-> <<>>, before |-> store, rounds |-> 0, sfail |-> FALSE,
           res |-> -1, threw |-> FALSE]]
  /\ UNCHANGED <<store, tasks, memoryCache, hist, otherParts>>

\* the end of the loop body: while (cursor !== 0); return deleted
LoopOrReturn(c) ==
  IF c.cursor # 0 THEN [c EXCEPT !.pc = "scan"] ELSE [c EXCEPT !.pc = "done", !.res = c.deleted]

\* invalidatePatternScan never going round again
invalidatePatternScan_once(p) ==
  LET c == calls[p] IN
  /\ c.op = "invalidatePattern" /\ c.pc = "scan"
  /\ \E ok \in BOOLEAN, n \in 1..MaxBatch :
       LET result == RedisScan(store, c.cursor, c.pattern, n)
           c1 == [c EXCEPT !.cursor = 0, !.keys = result.keys, !.rounds = @ + 1]
       IN  calls' = [calls EXCEPT ![p] =
             IF ~ok THEN [c EXCEPT !.pc = "done", !.sfail = TRUE, !.threw = TRUE]
             ELSE IF Len(result.keys) > 0 THEN [c1 EXCEPT !.pc = "del"]
             ELSE LoopOrReturn(c1)]
  /\ UNCHANGED <<store, tasks, memoryCache, hist, otherParts>>

\* const result = await this.redis.scan(cursor, ...); cursor = result.cursor;
\* a failure is logged and rethrown
invalidatePatternScan(p) ==
  LET c == calls[p] IN
  /\ c.op = "invalidatePattern" /\ c.pc = "scan"
  /\ \E ok \in BOOLEAN, n \in 1..MaxBatch :
       LET result == RedisScan(store, c.cursor, c.pattern, n)
           c1 == [c EXCEPT !.cursor = result.cursor, !.keys = result.keys, !.rounds = @ + 1]
       IN  calls' = [calls EXCEPT ![p] =
             IF ~ok THEN [c EXCEPT !.pc = "done", !.sfail = TRUE, !.threw = TRUE]
             ELSE IF Len(result.keys) > 0 THEN [c1 EXCEPT !.pc = "del"]
             ELSE LoopOrReturn(c1)]
  /\ UNCHANGED <<store, tasks, memoryCache, hist, otherParts>>

\* await this.redis.del(result.keys); deleted += result.keys.length;
\* a failure is logged and rethrown
invalidatePatternDel(p) ==
  LET c == calls[p] IN
  /\ c.op = "invalidatePattern" /\ c.pc = "del"
  /\ \E ok \in BOOLEAN :
       IF ok
       THEN /\ store' = RedisDel(store, c.keys)
            /\ calls' = [calls EXCEPT ![p] =
                 LoopOrReturn([c EXCEPT !.deleted = @ + Len(c.keys)])]
       ELSE /\ calls' = [calls EXCEPT ![p] =
                 [c EXCEPT !.pc = "done", !.sfail = TRUE, !.threw = TRUE]]
            /\ UNCHANGED store
  /\ UNCHANGED <<tasks, memoryCache, hist, otherParts>>

\* between two invalidations a caller stores a value
SetKey ==
  /\ \A p \in Procs : calls[p] = Idle
  /\ \E k \in DOMAIN store :
       /\ ~store[k].present
       /\ store' = RedisSetEx(store, k, DefaultTTL, JSON_stringify("v1"), "v1")
  /\ UNCHANGED <<calls, tasks, memoryCache, hist, otherParts>>

ReturnInv(p) ==
  /\ calls[p].op = "invalidatePattern" /\ calls[p].pc = "done"
  /\ calls' = [calls EXCEPT ![p] = Idle]
  /\ UNCHANGED <<store, tasks, memoryCache, hist, otherParts>>

InitInv ==
  /\ store = [k \in InvKeys |-> Absent]
  /\ calls = [p \in Procs |-> Idle]
  /\ tasks = <<>>
  /\ memoryCache = <<>>
  /\ hist = <<>>
  /\ otherPartsInit

NextInv ==
  \/ \E p \in Procs : invalidatePattern(p)
  \/ \E p \in Procs : invalidatePatternScan(p)
  \/ \E p \in Procs : invalidatePatternDel(p)
  \/ \E p \in Procs : ReturnInv(p)
  \/ SetKey

SpecInv == InitInv /\ [][NextInv]_vars

----------------------------------------------------------------------------
(* Properties of pattern invalidation *)

\* the keys matching the glob that the store held when call c began
Matching(c) == {k \in InvKeys : c.before[k].present /\ Matches(c.pattern, k)}

\* C10: an invalidatePattern whose store calls all succeeded has scanned
\* until the cursor was 0 again, returns the number N of keys that matched
\* when it began, has left none of them in the store and has left every
\* other key as it was
ThmC10 ==
  \A p \in Done("invalidatePattern") :
    LET c == calls[p] IN
    ~c.sfail =>
      /\ c.cursor = 0 /\ ~c.threw
      /\ c.res = Cardinality(Matching(c))
      /\ \A k \in InvKeys :
           IF k \in Matching(c) THEN ~store[k].present ELSE store[k] = c.before[k]

\* an invalidation that deleted two keys, found in different scan rounds
WitC10 ==
  \E p \in Done("invalidatePattern") :
    LET c == calls[p] IN
    ~c.sfail /\ c.res = 2 /\ c.rounds >= 3 /\ c.pattern = "a*"

\* C11: an invalidatePattern in which a scan or a delete failed after at
\* least one batch was deleted does not fail: it returns the number of keys
\* deleted so far
CexC11 ==
  \A p \in Done("invalidatePattern") :
    LET c == calls[p] IN
    (c.sfail /\ c.deleted > 0) => ~c.threw /\ c.res = c.deleted

----------------------------------------------------------------------------
(* Uptime oracle: verifyUptime(serviceUrl, checks), src/src/index.js       *)

\* most probes one call is asked for
MaxChecks == 3

\* what a probe can end with: an HTTP status, or NoResponse for a timeout
\* or a network error; Pending while axios.get has not settled
Pending == -1
NoResponse == 0
Statuses == {200, 404, 500}

\* validateStatus: (status) => status < 500, then(() => true), catch(() => false)
ProbeValue(outcome) == outcome # NoResponse /\ outcome < 500

\* the value of a division that JavaScript answers with NaN
NaN == -1

\* results.filter(r => r.status === 'fulfilled' && r.value).length
Successful(probes) == Cardinality({i \in 1..Len(probes) : ProbeValue(probes[i])})

\* (successful / checks) * 100, in hundredths of a percent, rounded down
UptimePercent(successful, checks) ==
  IF checks = 0 THEN NaN ELSE (successful * 10000) \div checks

\* the object verifyUptime returns with a threshold of 67
UptimeResult_strict(probes, checks) ==
  LET uptimePercent == UptimePercent(Successful(probes), checks) IN
  [up |-> uptimePercent # NaN /\ uptimePercent >= 6700,
   uptimePercent |-> uptimePercent, checks |-> Len(probes)]

\* return { up: uptimePercent >= 66, uptimePercent, checks: results.length }
UptimeResult(probes, checks) ==
  LET uptimePercent == UptimePercent(Successful(probes), checks) IN
  [up |-> uptimePercent # NaN /\ uptimePercent >= 6600,
   uptimePercent |-> uptimePercent, checks |-> Len(probes)]

NoUptime == [up |-> FALSE, uptimePercent |-> NaN, checks |-> -1]

\* Array(checks).fill(0).map(() => axios.get(...)): every probe is issued
\* before the first await.  Calls share no state; one is followed at a time.
\* issued (the number of axios.get calls) is history
verifyUptime(p) ==
  /\ p = 1 /\ Free(p)
  /\ \E checks \in 0..MaxChecks :
       calls' = [calls EXCEPT ![p] =
          [op |-> "verifyUptime", pc |-> "allSettled", checks |-> checks,
           probes |-> [i \in 1..checks |-> Pending], issued |-> checks,
           res |-> NoUptime]]
  /\ UNCHANGED <<store, tasks, memoryCache, hist, otherParts>>

\* one axios.get settles: a response arrives, or none does
verifyUptimeProbe(p) ==
  LET c == calls[p] IN
  /\ c.op = "verifyUptime" /\ c.pc = "allSettled"
  /\ \E i \in 1..Len(c.probes), outcome \in Statuses \cup {NoResponse} :
       /\ c.probes[i] = Pending
       /\ calls' = [calls EXCEPT ![p] = [c EXCEPT !.probes[i] = outcome]]
  /\ UNCHANGED <<store, tasks, memoryCache, hist, otherParts>>

\* await Promise.allSettled(...) resumes once no probe is pending
verifyUptimeSettled(p) ==
  LET c == calls[p] IN
  /\ c.op = "verifyUptime" /\ c.pc = "allSettled"
  /\ \A i \in 1..Len(c.probes) : c.probes[i] # Pending
  /\ calls' = [calls EXCEPT ![p] =
       [c EXCEPT !.pc = "done", !.res = UptimeResult(c.probes, c.checks)]]
  /\ UNCHANGED <<store, tasks, memoryCache, hist, otherParts>>

ReturnUptime(p) ==
  /\ calls[p].op = "verifyUptime" /\ calls[p].pc = "done"
  /\ calls' = [calls EXCEPT ![p] = Idle]
  /\ UNCHANGED <<store, tasks, memoryCache, hist, otherParts>>

InitUptime ==
  /\ store = [k \in {"cache:a"} |-> Absent]
  /\ calls = [p \in Procs |-> Idle]
  /\ tasks = <<>>
  /\ memoryCache = <<>>
  /\ hist = <<>>
  /\ otherPartsInit

NextUptime ==
  \/ \E p \in Procs : verifyUptime(p)
  \/ \E p \in Procs : verifyUptimeProbe(p)
  \/ \E p \in Procs : verifyUptimeSettled(p)
  \/ \E p \in Procs : ReturnUptime(p)

SpecUptime == InitUptime /\ [][NextUptime]_vars

----------------------------------------------------------------------------
(* Properties of the uptime oracle *)

\* the probes of call c that got a response with a status below 500
Succeeded(c) == {i \in 1..Len(c.probes) : c.probes[i] \in Statuses /\ c.probes[i] < 500}

\* C13: a verifyUptime that returned has issued exactly checks probes and
\* every one of them has settled; the reported checks is that number; up
\* is true iff successes * 100 / checks >= 66, a success being a response
\* with a status below 500; with 3 checks, up is true iff at least 2
\* probes succeeded
ThmC13 ==
  \A p \in Done("verifyUptime") :
    LET c == calls[p]
        successes == Cardinality(Succeeded(c))
    IN  /\ c.issued = c.checks /\ Len(c.probes) = c.checks
        /\ \A i \in 1..Len(c.probes) : c.probes[i] # Pending
        /\ c.res.checks = c.issued
        /\ c.res.up <=> (c.checks > 0 /\ successes * 100 >= 66 * c.checks)
        /\ c.checks = 3 => (c.res.up <=> successes >= 2)

\* three probes of which exactly two succeeded, one of them with a 404
WitC13 ==
  \E p \in Done("verifyUptime") :
    LET c == calls[p] IN
    /\ c.checks = 3 /\ Cardinality(Succeeded(c)) = 2 /\ c.res.up
    /\ \E i \in 1..3 : c.probes[i] = 404

----------------------------------------------------------------------------
(* Analytics aggregator: analyticsMiddleware, getAnalyticsSummary and      *)
(* resetAnalytics (src/src/cache/strategies.js, second module of the file) *)

\* capacity of the requests and responseTime windows (1000 in the source)
WindowCap == 2
\* length of the top lists (slice(0, 10) in the source)
TopN == 2
\* most responses recorded between two resets
MaxRecords == 4

\* the responses res.json is called for: request line, the :service route
\* parameter ("" when the route has none), status, the cached field of the
\* body ("none" when the body has no such field) and the duration in ms
Response(path, service, statusCode, cached, duration) ==
  [method |-> "GET", path |-> path, service |-> service, statusCode |-> statusCode,
   cached |-> cached, duration |-> duration]

Responses ==
  { Response("/api/weather/now", "weather", 200, "true", 1),
    Response("/api/weather/now", "weather", 200, "false", 3),
    Response("/api/geo/ip", "geo", 502, "none", 7),
    Response("/api/geo/ip", "geo", 429, "none", 0),
    Response("/api/news/top", "news", 503, "none", 2),
    Response("/health", "", 200, "none", 1) }

\* `${req.method} ${req.path}`
Endpoint(r) ==
  CASE r.path = "/api/weather/now" -> "GET /api/weather/now"
    [] r.path = "/api/geo/ip" -> "GET /api/geo/ip"
    [] r.path = "/api/news/top" -> "GET /api/news/top"
    [] r.path = "/health" -> "GET /health"

\* `${res.statusCode}: ${req.path}`
ErrorKey(r) ==
  CASE r.statusCode = 502 -> "502: /api/geo/ip"
    [] r.statusCode = 429 -> "429: /api/geo/ip"
    [] r.statusCode = 503 /\ r.path = "/api/geo/ip" -> "503: /api/geo/ip"
    [] r.statusCode = 503 /\ r.path # "/api/geo/ip" -> "503: /api/news/top"

\* map.set(key, (map.get(key) || 0) + 1) on a Map kept in insertion order
Bump(m, k) ==
  IF MapHas(m, k) THEN [m EXCEPT ![MapIndex(m, k)].count = @ + 1]
  ELSE Append(m, [key |-> k, count |-> 1])

\* the record pushed on analytics.requests; cached is data?.cached || false
RequestRecord(r) ==
  [method |-> r.method, path |-> r.path, statusCode |-> r.statusCode,
   duration |-> r.duration, cached |-> (r.cached = "true")]

\* PushCapped dropping the newest element of a full window
PushCapped_newest(w, x) == IF Len(w) + 1 > WindowCap THEN w ELSE Append(w, x)

\* array.push(x); if (array.length > 1000) array.shift()
PushCapped(w, x) == IF Len(w) + 1 > WindowCap THEN Tail(Append(w, x)) ELSE Append(w, x)

\* the body of the res.json override, for response r
Record(a, r) ==
  [requests |-> PushCapped(a.requests, RequestRecord(r)),
   responseTime |-> PushCapped(a.responseTime, r.duration),
   endpoints |-> Bump(a.endpoints, Endpoint(r)),
   services |-> IF r.service # "" THEN Bump(a.services, r.service) ELSE a.services,
   errors |-> IF r.statusCode >= 400 THEN Bump(a.errors, ErrorKey(r)) ELSE a.errors,
   cacheHits |-> IF r.cached = "true" THEN a.cacheHits + 1 ELSE a.cacheHits,
   cacheMisses |-> IF r.cached = "false" THEN a.cacheMisses + 1 ELSE a.cacheMisses]

\* InsertByCount putting an entry before the entries of equal count
RECURSIVE InsertByCount_unstable(_, _)
InsertByCount_unstable(sorted, e) ==
  IF sorted = <<>> THEN <<e>>
  ELSE IF Head(sorted).count > e.count
       THEN <<Head(sorted)>> \o InsertByCount_unstable(Tail(sorted), e)
       ELSE <<e>> \o sorted

\* array.sort((a, b) => b[1] - a[1]): descending by count, stable
RECURSIVE InsertByCount(_, _)
InsertByCount(sorted, e) ==
  IF sorted = <<>> THEN <<e>>
  ELSE IF Head(sorted).count >= e.count
       THEN <<Head(sorted)>> \o InsertByCount(Tail(sorted), e)
       ELSE <<e>> \o sorted

RECURSIVE SortByCount(_)
SortByCount(m) ==
  IF m = <<>> THEN <<>>
  ELSE InsertByCount(SortByCount(SubSeq(m, 1, Len(m) - 1)), m[Len(m)])

\* Array.from(map.entries()).sort(...).slice(0, 10)
Top(m) ==
  LET sorted == SortByCount(m) IN
  SubSeq(sorted, 1, IF Len(sorted) < TopN THEN Len(sorted) ELSE TopN)

\* [...analytics.responseTime].sort((a, b) => a - b)
RECURSIVE InsertAscending(_, _)
InsertAscending(sorted, x) ==
  IF sorted = <<>> THEN <<x>>
  ELSE IF Head(sorted) <= x
       THEN <<Head(sorted)>> \o InsertAscending(Tail(sorted), x)
       ELSE <<x>> \o sorted

RECURSIVE SortAscending(_)
SortAscending(w) ==
  IF w = <<>> THEN <<>>
  ELSE InsertAscending(SortAscending(SubSeq(w, 1, Len(w) - 1)), w[Len(w)])

\* Percentile taking the element one place below
Percentile_below(sortedTimes, pct) ==
  LET i == (Len(sortedTimes) * pct) \div 100 IN
  IF i = 0 THEN sortedTimes[1] ELSE sortedTimes[i]

\* sortedTimes[Math.floor(sortedTimes.length * pct / 100)] || 0
Percentile(sortedTimes, pct) ==
  LET i == (Len(sortedTimes) * pct) \div 100 IN
  IF i < Len(sortedTimes) THEN sortedTimes[i + 1] ELSE 0

\* Math.min() and Math.max() of no arguments
Infinity == 1000000

\* Math.round(x / y) for x >= 0 and y > 0
RoundDiv(x, y) == (2 * x + y) \div (2 * y)

RECURSIVE Sum(_)
Sum(w) == IF w = <<>> THEN 0 ELSE Head(w) + Sum(Tail(w))

\* getAnalyticsSummary(), without requestsPerMinute and recentRequests;
\* hitRate is in hundredths of a percent
Summary(a) ==
  LET sortedTimes == SortAscending(a.responseTime)
      n == Len(a.responseTime)
      total == a.cacheHits + a.cacheMisses
      avg == IF n > 0 THEN RoundDiv(Sum(a.responseTime), n) ELSE 0
      hitRate == IF total > 0 THEN RoundDiv(a.cacheHits * 10000, total) ELSE 0
  IN  [totalRequests |-> Len(a.requests),
       avg |-> avg,
       p50 |-> Percentile(sortedTimes, 50),
       p95 |-> Percentile(sortedTimes, 95),
       p99 |-> Percentile(sortedTimes, 99),
       min |-> IF n > 0 THEN sortedTimes[1] ELSE Infinity,
       max |-> IF n > 0 THEN sortedTimes[n] ELSE -Infinity,
       hits |-> a.cacheHits, misses |-> a.cacheMisses, hitRate |-> hitRate,
       topEndpoints |-> Top(a.endpoints),
       topServices |-> Top(a.services),
       recentErrors |-> Top(a.errors)]

\* getAnalyticsSummary and the use its caller makes of the snapshot are one
\* synchronous block: nothing else runs while a snapshot is held
NoSnapshot == \A q \in Procs : calls[q].op # "getAnalyticsSummary"

\* app.use(analyticsMiddleware): a request enters, res.json is overridden
\* and next() hands the request to its route (entered, the number of
\* responses on record at that moment, is history)
analyticsMiddleware(p) ==
  /\ NoSnapshot /\ Free(p)
  /\ calls' = [calls EXCEPT ![p] = [op |-> "request", pc |-> "next", entered |-> Len(hist)]]
  /\ UNCHANGED <<store, tasks, memoryCache, hist, analytics, realtime, info>>

\* the route answers with res.json(data): the override records the response
\* (hist is the log of the responses recorded since the last reset)
resJson(p) ==
  /\ NoSnapshot
  /\ calls[p].op = "request" /\ calls[p].pc = "next"
  /\ Len(hist) < MaxRecords
  /\ \E r \in Responses :
       /\ analytics' = Record(analytics, r)
       /\ hist' = Append(hist, r)
  /\ calls' = [calls EXCEPT ![p] = Idle]
  /\ UNCHANGED <<store, tasks, memoryCache, realtime, info>>

\* a caller of getAnalyticsSummary() (the analytics broadcast, a tool call)
\* takes a snapshot
getAnalyticsSummary(p) ==
  /\ NoSnapshot /\ Free(p)
  /\ calls' = [calls EXCEPT ![p] =
       [op |-> "getAnalyticsSummary", pc |-> "done", res |-> Summary(analytics)]]
  /\ UNCHANGED <<store, tasks, memoryCache, hist, analytics, realtime, info>>

\* resetAnalytics clearing the windows but not the maps and the totals
resetAnalytics_windows ==
  /\ NoSnapshot /\ hist # <<>>
  /\ analytics' = [analytics EXCEPT !.requests = <<>>, !.responseTime = <<>>]
  /\ hist' = <<>>
  /\ UNCHANGED <<store, calls, tasks, memoryCache, realtime, info>>

\* resetAnalytics(): seven synchronous assignments
resetAnalytics ==
  /\ NoSnapshot /\ hist # <<>>
  /\ analytics' = [requests |-> <<>>, endpoints |-> <<>>, services |-> <<>>,
                   errors |-> <<>>, responseTime |-> <<>>, cacheHits |-> 0,
                   cacheMisses |-> 0]
  /\ hist' = <<>>
  /\ UNCHANGED <<store, calls, tasks, memoryCache, realtime, info>>

ReturnAnalytics(p) ==
  /\ calls[p].op = "getAnalyticsSummary" /\ calls[p].pc = "done"
  /\ calls' = [calls EXCEPT ![p] = Idle]
  /\ UNCHANGED <<store, tasks, memoryCache, hist, analytics, realtime, info>>

InitAnalytics ==
  /\ store = [k \in {"cache:a"} |-> Absent]
  /\ calls = [p \in Procs |-> Idle]
  /\ tasks = <<>>
  /\ memoryCache = <<>>
  /\ hist = <<>>
  /\ otherPartsInit

NextAnalytics ==
  \/ \E p \in Procs : analyticsMiddleware(p)
  \/ \E p \in Procs : resJson(p)
  \/ \E p \in Procs : getAnalyticsSummary(p)
  \/ \E p \in Procs : ReturnAnalytics(p)
  \/ resetAnalytics

SpecAnalytics == InitAnalytics /\ [][NextAnalytics]_vars

----------------------------------------------------------------------------
(* Properties of the analytics aggregator *)

\* the last WindowCap elements of a log
Retained(log) ==
  LET n == Len(log)
      k == IF n < WindowCap THEN n ELSE WindowCap
  IN  SubSeq(log, n - k + 1, n)

\* C14: both windows hold at most WindowCap records, and they are the most
\* recently recorded ones, oldest first
ThmC14 ==
  /\ Len(analytics.requests) <= WindowCap
  /\ Len(analytics.responseTime) <= WindowCap
  /\ analytics.requests =
       [i \in 1..Len(Retained(hist)) |-> RequestRecord(Retained(hist)[i])]
  /\ analytics.responseTime =
       [i \in 1..Len(Retained(hist)) |-> Retained(hist)[i].duration]

\* MaxRecords responses were recorded and the first one, unlike any later
\* one, is no longer in the window
WitC14 ==
  /\ Len(hist) = MaxRecords /\ Len(analytics.requests) = WindowCap
  /\ \A i \in 1..Len(analytics.requests) : analytics.requests[i] # RequestRecord(hist[1])

\* the number of responses in log w that satisfy Test
CountIn(w, Test(_)) == Cardinality({i \in 1..Len(w) : Test(w[i])})

\* the counts of snapshot s are those of the responses in log w
CountsOf(s, w) ==
  /\ \A i \in 1..Len(s.topEndpoints) :
       s.topEndpoints[i].count =
         CountIn(w, LAMBDA r : Endpoint(r) = s.topEndpoints[i].key)
  /\ \A i \in 1..Len(s.topServices) :
       s.topServices[i].count = CountIn(w, LAMBDA r : r.service = s.topServices[i].key)
  /\ \A i \in 1..Len(s.recentErrors) :
       s.recentErrors[i].count =
         CountIn(w, LAMBDA r : r.statusCode >= 400 /\ ErrorKey(r) = s.recentErrors[i].key)
  /\ s.hits = CountIn(w, LAMBDA r : r.cached = "true")
  /\ s.misses = CountIn(w, LAMBDA r : r.cached = "false")

\* C15: the counts a summary reports are those of the records retained in
\* the window, also after more than WindowCap responses were recorded
CexC15 == CountsOf(Summary(analytics), Retained(hist))

\* what the responses recorded since the last reset count for, in the
\* order recorded: their endpoint, their service and their error signature
\* ("" for a response that has none)
EndpointLog == [i \in 1..Len(hist) |-> Endpoint(hist[i])]
ServiceLog == [i \in 1..Len(hist) |-> hist[i].service]
ErrorLog ==
  [i \in 1..Len(hist) |-> IF hist[i].statusCode >= 400 THEN ErrorKey(hist[i]) ELSE ""]

KeysOf(log) == {log[i] : i \in 1..Len(log)} \ {""}
Occurrences(log, k) == Cardinality({i \in 1..Len(log) : log[i] = k})
FirstSeen(log, k) == CHOOSE i \in 1..Len(log) : log[i] = k /\ \A j \in 1..(i - 1) : log[j] # k

\* list is a top list of the keys of log
IsTopList(list, log) ==
  LET listed == {list[i].key : i \in 1..Len(list)} IN
  /\ Len(list) = (IF Cardinality(KeysOf(log)) < TopN THEN Cardinality(KeysOf(log)) ELSE TopN)
  /\ \A i \in 1..Len(list) :
       list[i].key \in KeysOf(log) /\ list[i].count = Occurrences(log, list[i].key)
  /\ \A i, j \in 1..Len(list) :
       i < j => \/ list[i].count > list[j].count
                \/ /\ list[i].count = list[j].count
                   /\ FirstSeen(log, list[i].key) < FirstSeen(log, list[j].key)
  /\ \A k \in KeysOf(log) \ listed :
       \A i \in 1..Len(list) : Occurrences(log, k) <= list[i].count

\* C17: the three top lists of a summary hold at most TopN entries each, in
\* descending order of count and, among equal counts, in first-seen order;
\* no key left out has a larger count than a listed one; an error signature
\* counts exactly the responses with status >= 400 that bear it
ThmC17 ==
  LET s == Summary(analytics) IN
  /\ Len(s.topEndpoints) <= TopN /\ IsTopList(s.topEndpoints, EndpointLog)
  /\ Len(s.topServices) <= TopN /\ IsTopList(s.topServices, ServiceLog)
  /\ Len(s.recentErrors) <= TopN /\ IsTopList(s.recentErrors, ErrorLog)

\* more endpoints than the list holds, the most frequent not the first
\* seen, and the last place decided between equal counts by first-seen
\* order; an error was recorded and a success was not counted as one
WitC17 ==
  LET s == Summary(analytics) IN
  /\ Len(analytics.endpoints) > TopN
  /\ s.topEndpoints[1].key # analytics.endpoints[1].key
  /\ \E i \in 1..Len(analytics.endpoints) :
       /\ \A j \in 1..Len(s.topEndpoints) : s.topEndpoints[j].key # analytics.endpoints[i].key
       /\ analytics.endpoints[i].count = s.topEndpoints[TopN].count
  /\ Len(s.recentErrors) > 0
  /\ \E i \in 1..Len(hist) : hist[i].statusCode < 400

\* a summary of store a that reports no request reports nothing else
NotPartial(a) ==
  LET s == Summary(a) IN
  s.totalRequests = 0 =>
    /\ a = analyticsInit
    /\ s.topEndpoints = <<>> /\ s.topServices = <<>> /\ s.recentErrors = <<>>
    /\ s.hits = 0 /\ s.misses = 0 /\ s.avg = 0

\* C18: whatever requests are in flight, a step of resetAnalytics leaves
\* the analytics store as constructed, so that a summary reports zero
\* requests and empty top lists, and no step of any operation leaves a store
\* whose window is empty while a counter is not
ThmC18 ==
  [][
      /\ (hist # <<>> /\ hist' = <<>>) =>
           /\ analytics' = analyticsInit
           /\ Summary(analytics').totalRequests = 0
           /\ calls' = calls
      /\ NotPartial(analytics')
      /\ \A p \in Done("getAnalyticsSummary") :
           calls[p].res.totalRequests = 0 => calls[p].res = Summary(analyticsInit)
    ]_vars

\* the store was reset while a request that had entered after the first
\* response was recorded is still on its way to res.json
WitC18 ==
  /\ hist = <<>> /\ analytics = analyticsInit
  /\ \E p \in Procs : calls[p].op = "request" /\ calls[p].entered > 0

----------------------------------------------------------------------------
(* Percentiles of getAnalyticsSummary over windows of up to MaxWindow      *)
(* durations (any length up to 1000 occurs in the source)                  *)

MaxWindow == 25

\* the durations of n responses: rising, falling, constant, or scattered
Shapes == {"rising", "falling", "flat", "scattered"}
Durations(shape, n) ==
  [i \in 1..n |->
     CASE shape = "rising" -> i
       [] shape = "falling" -> n + 1 - i
       [] shape = "flat" -> 5
       [] shape = "scattered" -> (i * 7) % 10]

\* the analytics store after n responses of GET /health with durations w,
\* n being below the capacity of the windows
AfterHealth(w) ==
  [requests |-> [i \in 1..Len(w) |-> RequestRecord(Response("/health", "", 200, "none", w[i]))],
   responseTime |-> w,
   endpoints |-> <<[key |-> "GET /health", count |-> Len(w)]>>,
   services |-> <<>>, errors |-> <<>>, cacheHits |-> 0, cacheMisses |-> 0]

InitPercentile ==
  /\ store = [k \in {"cache:a"} |-> Absent]
  /\ calls = [p \in Procs |-> Idle]
  /\ tasks = <<>>
  /\ memoryCache = <<>>
  /\ \E shape \in Shapes, n \in 1..MaxWindow :
       /\ analytics = AfterHealth(Durations(shape, n))
       /\ hist = [i \in 1..n |-> Response("/health", "", 200, "none", Durations(shape, n)[i])]
  /\ clients = <<>>
  /\ rooms = <<>>
  /\ sent = <<>>
  /\ info = infoInit

NextPercentile ==
  \/ \E p \in Procs : getAnalyticsSummary(p)
  \/ \E p \in Procs : ReturnAnalytics(p)

SpecPercentile == InitPercentile /\ [][NextPercentile]_vars

\* v is the element at index k (from 0) of the durations w sorted ascending
IsRanked(w, k, v) ==
  /\ \E i \in 1..Len(w) : w[i] = v
  /\ Cardinality({i \in 1..Len(w) : w[i] < v}) <= k
  /\ Cardinality({i \in 1..Len(w) : w[i] <= v}) > k

\* C16: for a window of N >= 1 durations a summary reports as p50, p95 and
\* p99 the elements at index floor(N*0.5), floor(N*0.95) and floor(N*0.99)
\* of the durations sorted ascending, as min and max the smallest and the
\* largest duration, and min <= p50 <= p95 <= p99 <= max
ThmC16 ==
  \A p \in Done("getAnalyticsSummary") :
    LET s == calls[p].res
        w == analytics.responseTime
        N == Len(w)
    IN  N >= 1 =>
          /\ IsRanked(w, (N * 50) \div 100, s.p50)
          /\ IsRanked(w, (N * 95) \div 100, s.p95)
          /\ IsRanked(w, (N * 99) \div 100, s.p99)
          /\ \A i \in 1..N : s.min <= w[i] /\ w[i] <= s.max
          /\ \E i, j \in 1..N : s.min = w[i] /\ s.max = w[j]
          /\ s.min <= s.p50 /\ s.p50 <= s.p95 /\ s.p95 <= s.p99 /\ s.p99 <= s.max

\* a summary of MaxWindow durations whose three percentiles all differ
WitC16 ==
  \E p \in Done("getAnalyticsSummary") :
    LET s == calls[p].res IN
    /\ Len(analytics.responseTime) = MaxWindow
    /\ s.min < s.p50 /\ s.p50 < s.p95 /\ s.p95 < s.p99

----------------------------------------------------------------------------
(* Realtime broadcaster: class WebSocketServer.  The repository holds two  *)
(* implementations of it, src/unnamed/part_006 and src/unnamed/part_007;   *)
(* a process builds one of them.                                           *)

Servers == {"part_006", "part_007"}

\* identifiers generateClientId hands out, and the room names clients use
ConnIds == {"c1", "c2"}
RoomNames == {"ops", "dev"}

\* a property that a parsed message does not have
Missing == "<undefined>"

\* a client message: valid says that JSON.parse accepts it; then type, its
\* top-level room and channel properties, and the room, channel and to
\* properties of its data property (hasData: data is present)
Message(type, room, hasData, dataRoom) ==
  [valid |-> TRUE, type |-> type, room |-> room, channel |-> Missing,
   hasData |-> hasData, dataRoom |-> dataRoom, dataChannel |-> Missing,
   dataTo |-> Missing]

MessageTypes == {"join_room", "leave_room", "room_join", "room_leave"}

\* the messages clients send: { type, room } and { type, data: { room } }
Messages ==
  {Message(t, r, FALSE, Missing) : t \in MessageTypes, r \in RoomNames}
    \cup {Message(t, Missing, TRUE, r) : t \in MessageTypes, r \in RoomNames}

\* a message of the server: size is a members count, list a members array
\* (hasList: the message carries one), clientId the connection it is about
Envelope(type, room, clientId, size, hasList, list) ==
  [type |-> type, room |-> room, clientId |-> clientId, size |-> size,
   hasList |-> hasList, list |-> list, channel |-> ""]

\* a message of the server about a channel
ChannelEnvelope(type, channel) ==
  [Envelope(type, "", "", -1, FALSE, <<>>) EXCEPT !.channel = channel]

\* the state of one WebSocketServer while a handler runs
Server(srv) == [clients |-> clients[srv], rooms |-> rooms[srv], sent |-> <<>>]

HasClient(W, id) == \E i \in 1..Len(W.clients) : W.clients[i].id = id
ClientIndex(W, id) == CHOOSE i \in 1..Len(W.clients) : W.clients[i].id = id
HasRoom(W, room) == \E i \in 1..Len(W.rooms) : W.rooms[i].name = room
RoomIndex(W, room) == CHOOSE i \in 1..Len(W.rooms) : W.rooms[i].name = room
Members(W, room) == W.rooms[RoomIndex(W, room)].members
IsIn(seq, x) == \E i \in 1..Len(seq) : seq[i] = x
\* Set.add and Set.delete on a Set kept in insertion order
SetAdd(seq, x) == IF IsIn(seq, x) THEN seq ELSE Append(seq, x)
SetDelete(seq, x) == SelectSeq(seq, LAMBDA y : y # x)

\* sendToClient(clientId, data): sends iff the client is registered and its
\* socket is OPEN
sendToClient(W, id, data) ==
  IF HasClient(W, id) /\ W.clients[ClientIndex(W, id)].open
  THEN [W EXCEPT !.sent = Append(@, [to |-> id, data |-> data])]
  ELSE W

\* members.forEach(clientId => { if (clientId !== exclude) sendToClient })
RECURSIVE sendToEach(_, _, _, _)
sendToEach(W, ids, data, exclude) ==
  IF ids = <<>> THEN W
  ELSE sendToEach(IF Head(ids) # exclude THEN sendToClient(W, Head(ids), data) ELSE W,
                  Tail(ids), data, exclude)

\* sendToRoom (part_006) and broadcastToRoom (part_007)
sendToRoom(W, room, data, exclude) ==
  IF ~HasRoom(W, room) THEN W ELSE sendToEach(W, Members(W, room), data, exclude)

\* if (!this.rooms.has(room)) this.rooms.set(room, new Set());
\* this.rooms.get(room).add(clientId)
AddMember(W, id, room) ==
  LET W1 == IF HasRoom(W, room) THEN W
            ELSE [W EXCEPT !.rooms = Append(@, [name |-> room, members |-> <<>>])]
  IN  [W1 EXCEPT !.rooms[RoomIndex(W1, room)].members = SetAdd(@, id)]

\* DeleteRoom leaving the room in the Map
DeleteRoom_keep(W, room) == W

\* this.rooms.delete(room)
DeleteRoom(W, room) == [W EXCEPT !.rooms = SelectSeq(@, LAMBDA r : r.name # room)]

\* part_006 joinRoom(clientId, room)
joinRoom6(W, id, room) ==
  LET W1 == AddMember(W, id, room)
      size == Len(Members(W1, room))
      W2 == sendToClient(W1, id, Envelope("room_joined", room, "", size, FALSE, <<>>))
  IN  sendToRoom(W2, room, Envelope("room_member_joined", "", id, size, FALSE, <<>>), id)

\* part_006 leaveRoom(clientId, room)
leaveRoom6(W, id, room) ==
  IF ~HasRoom(W, room) THEN W
  ELSE LET W1 == [W EXCEPT !.rooms[RoomIndex(W, room)].members = SetDelete(@, id)]
           size == Len(Members(W1, room))
           W2 == sendToClient(W1, id, Envelope("room_left", room, "", -1, FALSE, <<>>))
           W3 == sendToRoom(W2, room, Envelope("room_member_left", "", id, size, FALSE, <<>>), id)
       IN  IF size = 0 THEN DeleteRoom(W3, room) ELSE W3

\* part_006 handleDisconnect: this.rooms.forEach((members, room) => { if
\* (members.has(clientId)) this.leaveRoom(clientId, room) })
RECURSIVE leaveEach6(_, _, _)
leaveEach6(W, id, names) ==
  IF names = <<>> THEN W
  ELSE leaveEach6(IF HasRoom(W, Head(names)) /\ IsIn(Members(W, Head(names)), id)
                  THEN leaveRoom6(W, id, Head(names)) ELSE W,
                  id, Tail(names))

\* DeleteClient leaving the client in the registry
DeleteClient_keep(W, id) == W

\* this.clients.delete(clientId)
DeleteClient(W, id) == [W EXCEPT !.clients = SelectSeq(@, LAMBDA c : c.id # id)]

\* handleDisconnect6 deleting the client without leaving its rooms
handleDisconnect6_stay(W, id) == DeleteClient(W, id)

\* part_006 handleDisconnect(clientId)
handleDisconnect6(W, id) ==
  IF ~HasClient(W, id) THEN W
  ELSE DeleteClient(leaveEach6(W, id, [i \in 1..Len(W.rooms) |-> W.rooms[i].name]), id)

\* part_007 joinRoom(clientId, roomName)
joinRoom7(W, id, room) ==
  IF ~HasClient(W, id) THEN W
  ELSE LET W1 == AddMember(W, id, room)
           W2 == [W1 EXCEPT !.clients[ClientIndex(W1, id)].rooms = SetAdd(@, room)]
           W3 == sendToClient(W2, id,
                   Envelope("room_joined", room, "", -1, TRUE, Members(W2, room)))
       IN  sendToRoom(W3, room, Envelope("user_joined", room, id, -1, FALSE, <<>>), id)

\* part_007 leaveRoom(clientId, roomName)
leaveRoom7(W, id, room) ==
  IF ~HasClient(W, id) THEN W
  ELSE LET W1 == IF ~HasRoom(W, room) THEN W
                 ELSE LET Wd == [W EXCEPT !.rooms[RoomIndex(W, room)].members = SetDelete(@, id)]
                      IN  IF Len(Members(Wd, room)) = 0 THEN DeleteRoom(Wd, room)
                          ELSE sendToRoom(Wd, room,
                                 Envelope("user_left", room, id, -1, FALSE, <<>>), "")
       IN  [W1 EXCEPT !.clients[ClientIndex(W1, id)].rooms = SetDelete(@, room)]

\* part_007 handleDisconnect: client.rooms.forEach(room => leaveRoom)
RECURSIVE leaveEach7(_, _, _)
leaveEach7(W, id, names) ==
  IF names = <<>> THEN W ELSE leaveEach7(leaveRoom7(W, id, Head(names)), id, Tail(names))

handleDisconnect7(W, id) ==
  IF ~HasClient(W, id) THEN W
  ELSE DeleteClient(leaveEach7(W, id, W.clients[ClientIndex(W, id)].rooms), id)

\* the ids of the registry in the order of this.clients.forEach
ClientIds(W) == [i \in 1..Len(W.clients) |-> W.clients[i].id]

\* part_006 handleSubscribe(clientId, channel)
handleSubscribe(W, id, channel) ==
  IF ~HasClient(W, id) THEN W
  ELSE sendToClient([W EXCEPT !.clients[ClientIndex(W, id)].subscriptions = @ \cup {channel}],
                    id, ChannelEnvelope("subscribed", channel))

\* part_006 handleUnsubscribe(clientId, channel)
handleUnsubscribe(W, id, channel) ==
  IF ~HasClient(W, id) THEN W
  ELSE sendToClient([W EXCEPT !.clients[ClientIndex(W, id)].subscriptions = @ \ {channel}],
                    id, ChannelEnvelope("unsubscribed", channel))

\* part_007 subscribe(clientId, channel): metadata.subscriptions is made on
\* the first subscription (hasSubs)
subscribe(W, id, channel) ==
  IF ~HasClient(W, id) THEN W
  ELSE sendToClient([W EXCEPT !.clients[ClientIndex(W, id)].subscriptions = @ \cup {channel},
                              !.clients[ClientIndex(W, id)].hasSubs = TRUE],
                    id, ChannelEnvelope("subscribed", channel))

\* part_007 unsubscribe(clientId, channel)
unsubscribe(W, id, channel) ==
  IF ~HasClient(W, id) \/ ~W.clients[ClientIndex(W, id)].hasSubs THEN W
  ELSE sendToClient([W EXCEPT !.clients[ClientIndex(W, id)].subscriptions = @ \ {channel}],
                    id, ChannelEnvelope("unsubscribed", channel))

\* broadcast(data, excludeClientId) that excludes nobody
broadcast_all(W, data, exclude) == sendToEach(W, ClientIds(W), data, "")

\* broadcast(data, excludeClientId) of both servers: every registered client
\* but the excluded one whose socket is OPEN
broadcast(W, data, exclude) == sendToEach(W, ClientIds(W), data, exclude)

\* publishToChannel(channel, data) told to a subscriber list that ignores
\* the channel
Subscribed_any(c, channel) == c.hasSubs

\* client.subscriptions.has(channel) (part_006); client.metadata.subscriptions
\* && client.metadata.subscriptions.has(channel) (part_007)
Subscribed(c, channel) == c.hasSubs /\ channel \in c.subscriptions

\* publishToChannel(channel, data): the server after the sends and the
\* count the method returns
RECURSIVE publishToEach(_, _, _, _)
publishToEach(W, ids, channel, count) ==
  IF ids = <<>> THEN [W |-> W, count |-> count]
  ELSE LET c == W.clients[ClientIndex(W, Head(ids))]
           yes == Subscribed(c, channel) /\ c.open
       IN  publishToEach(IF Subscribed(c, channel)
                         THEN sendToClient(W, c.id, ChannelEnvelope("channel_message", channel))
                         ELSE W,
                         Tail(ids), channel, IF yes THEN count + 1 ELSE count)

publishToChannel(W, channel) == publishToEach(W, ClientIds(W), channel, 0)

\* part_006 handleMessage: a message JSON.parse rejects is answered with an
\* error; a type the switch does not know is emitted as a 'message' event
\* and changes nothing
handleMessage6(W, id, m) ==
  IF ~m.valid
  THEN sendToClient(W, id, Envelope("error", "", "", -1, FALSE, <<>>))
  ELSE CASE m.type = "subscribe" -> handleSubscribe(W, id, m.channel)
         [] m.type = "unsubscribe" -> handleUnsubscribe(W, id, m.channel)
         [] m.type = "ping" -> sendToClient(W, id, Envelope("pong", "", "", -1, FALSE, <<>>))
         [] m.type = "broadcast" ->
              broadcast(W, Envelope("data", "", id, -1, FALSE, <<>>), id)
         [] m.type = "room_join" -> joinRoom6(W, id, m.room)
         [] m.type = "room_leave" -> leaveRoom6(W, id, m.room)
         [] m.type = "room_message" ->
              sendToRoom(W, m.room, Envelope("data", m.room, id, -1, FALSE, <<>>), id)
         [] OTHER -> W

\* part_007 ws.on('message') and handleMessage: a message JSON.parse rejects
\* and a property read on a missing data both throw, which the listener
\* answers with an error
handleMessage7(W, id, m) ==
  IF \/ ~m.valid
     \/ /\ m.type \in {"join_room", "leave_room", "broadcast", "direct_message",
                       "subscribe", "unsubscribe"}
        /\ ~m.hasData
  THEN sendToClient(W, id, Envelope("error", "", "", -1, FALSE, <<>>))
  ELSE CASE m.type = "ping" -> sendToClient(W, id, Envelope("pong", "", "", -1, FALSE, <<>>))
         [] m.type = "join_room" -> joinRoom7(W, id, m.dataRoom)
         [] m.type = "leave_room" -> leaveRoom7(W, id, m.dataRoom)
         [] m.type = "broadcast" ->
              sendToRoom(W, m.dataRoom, Envelope("message", m.dataRoom, id, -1, FALSE, <<>>), id)
         [] m.type = "direct_message" ->
              sendToClient(W, m.dataTo, Envelope("direct_message", "", id, -1, FALSE, <<>>))
         [] m.type = "subscribe" -> subscribe(W, id, m.dataChannel)
         [] m.type = "unsubscribe" -> unsubscribe(W, id, m.dataChannel)
         [] OTHER -> W

\* the handler's effects become the server's state
Effects(srv, W) ==
  /\ clients' = [clients EXCEPT ![srv] = W.clients]
  /\ rooms' = [rooms EXCEPT ![srv] = W.rooms]
  /\ sent' = [sent EXCEPT ![srv] = W.sent]

Becomes(srv, W) ==
  /\ Effects(srv, W)
  /\ UNCHANGED <<store, calls, tasks, memoryCache, hist, analytics, info>>

\* the client record of a new connection: part_006 makes the subscriptions
\* Set and sets ws.isAlive, part_007 does neither (pings, the number of
\* pings sent to the connection since it last answered one, is history)
Client(srv, id) ==
  [id |-> id, open |-> TRUE, rooms |-> <<>>, subscriptions |-> {},
   hasSubs |-> (srv = "part_006"),
   isAlive |-> IF srv = "part_006" THEN "true" ELSE "undefined",
   pings |-> 0]

\* wss.on('connection'): register the client and greet it
connection(srv) ==
  /\ srv \in DOMAIN clients
  /\ \E id \in ConnIds :
       /\ ~HasClient(Server(srv), id)
       /\ LET W == [Server(srv) EXCEPT
                      !.clients = Append(@, Client(srv, id))]
              greeting == IF srv = "part_006" THEN "welcome" ELSE "connected"
          IN  Becomes(srv, sendToClient(W, id, Envelope(greeting, "", id, -1, FALSE, <<>>)))

\* ws.on('message') of an open connection
handleMessage(srv) ==
  /\ srv \in DOMAIN clients
  /\ \E i \in 1..Len(clients[srv]), m \in Messages :
       /\ clients[srv][i].open
       /\ Becomes(srv, IF srv = "part_006"
                       THEN handleMessage6(Server(srv), clients[srv][i].id, m)
                       ELSE handleMessage7(Server(srv), clients[srv][i].id, m))

\* the socket of a connection leaves the OPEN state (closed by the peer,
\* terminated, or broken); its 'close' event follows
socketCloses(srv) ==
  /\ srv \in DOMAIN clients
  /\ \E i \in 1..Len(clients[srv]) :
       /\ clients[srv][i].open
       /\ Becomes(srv, [Server(srv) EXCEPT !.clients[i].open = FALSE])

\* ws.on('close'): handleDisconnect(clientId)
handleDisconnect(srv) ==
  /\ srv \in DOMAIN clients
  /\ \E i \in 1..Len(clients[srv]) :
       /\ ~clients[srv][i].open
       /\ Becomes(srv, IF srv = "part_006"
                       THEN handleDisconnect6(Server(srv), clients[srv][i].id)
                       ELSE handleDisconnect7(Server(srv), clients[srv][i].id))

InitRealtime ==
  /\ store = [k \in {"cache:a"} |-> Absent]
  /\ calls = [p \in Procs |-> Idle]
  /\ tasks = <<>>
  /\ memoryCache = <<>>
  /\ hist = <<>>
  /\ analytics = analyticsInit
  /\ info = infoInit
  /\ \E srv \in Servers :
       /\ clients = [w \in {srv} |-> <<>>]
       /\ rooms = [w \in {srv} |-> <<>>]
       /\ sent = [w \in {srv} |-> <<>>]

NextRealtime ==
  \/ \E srv \in Servers : connection(srv)
  \/ \E srv \in Servers : handleMessage(srv)
  \/ \E srv \in Servers : socketCloses(srv)
  \/ \E srv \in Servers : handleDisconnect(srv)

SpecRealtime == InitRealtime /\ [][NextRealtime]_vars

----------------------------------------------------------------------------
(* Properties of the realtime broadcaster *)

Registered(srv) == {clients[srv][i].id : i \in 1..Len(clients[srv])}
RoomsOf(srv) == {rooms[srv][i].name : i \in 1..Len(rooms[srv])}
MembersOf(srv, room) ==
  LET i == CHOOSE j \in 1..Len(rooms[srv]) : rooms[srv][j].name = room
  IN  {rooms[srv][i].members[j] : j \in 1..Len(rooms[srv][i].members)}

\* C19: no room is ever empty; a room that comes into being has the
\* connection that joined it as its only member; a connection that
\* disconnects is a member of no room afterwards, and a room of which it was
\* the last member is gone
ThmC19 ==
  [][\A srv \in DOMAIN clients :
       /\ \A i \in 1..Len(rooms'[srv]) : Len(rooms'[srv][i].members) > 0
       /\ \A i \in 1..Len(rooms'[srv]) :
            rooms'[srv][i].name \notin RoomsOf(srv) =>
              /\ Len(rooms'[srv][i].members) = 1
              /\ rooms'[srv][i].members[1] \in Registered(srv)
       /\ \A id \in Registered(srv) :
            (\A i \in 1..Len(clients'[srv]) : clients'[srv][i].id # id) =>
              /\ \A i \in 1..Len(rooms'[srv]) :
                   \A j \in 1..Len(rooms'[srv][i].members) : rooms'[srv][i].members[j] # id
              /\ \A room \in RoomsOf(srv) :
                   MembersOf(srv, room) = {id} =>
                     \A i \in 1..Len(rooms'[srv]) : rooms'[srv][i].name # room
    ]_vars

\* the last handler was the disconnect of a connection that shared room
\* "ops" with another: it is gone from the registry and the room, the other
\* member was told, and the room lives on with that member alone
WitC19 ==
  \E srv \in DOMAIN clients :
    \E id \in ConnIds \ Registered(srv) :
      /\ "ops" \in RoomsOf(srv) /\ Cardinality(MembersOf(srv, "ops")) = 1
      /\ \E i \in 1..Len(sent[srv]) :
           /\ sent[srv][i].data.type \in {"room_member_left", "user_left"}
           /\ sent[srv][i].data.clientId = id
           /\ sent[srv][i].to \in MembersOf(srv, "ops")

\* the message { type: "join_room", room: "ops" }
JoinOps == Message("join_room", "ops", FALSE, Missing)

\* C20: when an open connection sends { type: "join_room", room: "ops" }
\* it becomes a member of room "ops"; if the room did not exist it is
\* answered with room_joined whose members is the list of itself alone; if
\* one other open connection was the room's only member, both get
\* room_member_joined with a members count of 2
CexC20 ==
  [][\A srv \in DOMAIN clients :
       \A i \in 1..Len(clients[srv]) :
         LET id == clients[srv][i].id
             W == IF srv = "part_006" THEN handleMessage6(Server(srv), id, JoinOps)
                  ELSE handleMessage7(Server(srv), id, JoinOps)
         IN  (clients[srv][i].open /\ Becomes(srv, W)) =>
               /\ \E j \in 1..Len(rooms'[srv]) :
                    rooms'[srv][j].name = "ops" /\ IsIn(rooms'[srv][j].members, id)
               /\ "ops" \notin RoomsOf(srv) =>
                    \E k \in 1..Len(sent'[srv]) :
                      /\ sent'[srv][k].to = id
                      /\ sent'[srv][k].data.type = "room_joined"
                      /\ sent'[srv][k].data.hasList /\ sent'[srv][k].data.list = <<id>>
               /\ \A o \in Registered(srv) \ {id} :
                    ("ops" \in RoomsOf(srv) /\ MembersOf(srv, "ops") = {o}
                       /\ clients[srv][ClientIndex(Server(srv), o)].open) =>
                      \A x \in {id, o} :
                        \E k \in 1..Len(sent'[srv]) :
                          /\ sent'[srv][k].to = x
                          /\ sent'[srv][k].data.type = "room_member_joined"
                          /\ sent'[srv][k].data.size = 2
    ]_vars

----------------------------------------------------------------------------
(* Channels, broadcasts and direct messages of the realtime broadcaster.   *)
(* hist is history: the ids whose disconnect has been handled, in order;   *)
(* calls[1] holds the record of the timer's publishToChannel call until    *)
(* the timer's callback returns, which it does before any other handler    *)
(* runs.                                                                   *)

Channels == {"analytics"}

\* a text JSON.parse rejects
InvalidJSON == [Message("", Missing, FALSE, Missing) EXCEPT !.valid = FALSE]

\* { type, channel } and { type, data: { channel } }
ChannelMessage(type, channel, hasData, dataChannel) ==
  [Message(type, Missing, hasData, Missing) EXCEPT
     !.channel = channel, !.dataChannel = dataChannel]

\* { type: 'direct_message', data: { to, message } }
DirectMessage(to) == [Message("direct_message", Missing, TRUE, Missing) EXCEPT !.dataTo = to]

\* the messages clients send: subscriptions in both forms, with the channel
\* and without it; ping; joins of room "ops" in the form of either server;
\* { type: 'broadcast', data: { room: 'ops', message } }, which part_006
\* sends to everybody and part_007 to the room; { type: 'room_message',
\* room: 'ops', data }; direct messages; and a text that is not JSON
ChannelMessages ==
  {InvalidJSON, Message("ping", Missing, FALSE, Missing),
   Message("room_join", "ops", FALSE, Missing),
   Message("join_room", Missing, TRUE, "ops"),
   Message("broadcast", Missing, TRUE, "ops"),
   Message("room_message", "ops", TRUE, Missing)}
    \cup {ChannelMessage(t, ch, FALSE, Missing) :
            t \in {"subscribe", "unsubscribe"}, ch \in Channels \cup {Missing}}
    \cup {ChannelMessage(t, Missing, TRUE, ch) :
            t \in {"subscribe", "unsubscribe"}, ch \in Channels \cup {Missing}}
    \cup {DirectMessage(to) : to \in ConnIds}

\* the server after it has handled message m of connection id
Handled(srv, id, m) ==
  IF srv = "part_006" THEN handleMessage6(Server(srv), id, m)
  ELSE handleMessage7(Server(srv), id, m)

\* the server after handleDisconnect(id)
Disconnected(srv, id) ==
  IF srv = "part_006" THEN handleDisconnect6(Server(srv), id)
  ELSE handleDisconnect7(Server(srv), id)

\* ws.on('message') of an open connection
channelMessage(srv) ==
  /\ srv \in DOMAIN clients
  /\ \E i \in 1..Len(clients[srv]), m \in ChannelMessages :
       /\ clients[srv][i].open
       /\ Becomes(srv, Handled(srv, clients[srv][i].id, m))

\* a payload that connection id asks the server to pass on
Payload(id, room) == Envelope("data", room, id, -1, FALSE, <<>>)

\* this.broadcast(data, clientId) on behalf of an open connection: part_006
\* calls it for a 'broadcast' message, part_007 offers it to the listeners
\* of the 'message' event it emits
broadcastCall(srv) ==
  /\ srv \in DOMAIN clients
  /\ \E i \in 1..Len(clients[srv]) :
       /\ clients[srv][i].open
       /\ Becomes(srv, broadcast(Server(srv), Payload(clients[srv][i].id, ""), clients[srv][i].id))

\* the record of a publishToChannel call that returned count
Published(count) == [op |-> "publishToChannel", pc |-> "done", res |-> count]

\* setInterval(() => { const analytics = getAnalyticsSummary();
\* wsServer.publishToChannel('analytics', { type: 'analytics_update', ... }) }, 2000)
analyticsBroadcast(srv) ==
  /\ srv \in DOMAIN clients /\ calls[1] = Idle
  /\ LET P == publishToChannel(Server(srv), "analytics")
     IN  /\ Effects(srv, P.W)
         /\ calls' = [calls EXCEPT ![1] = Published(P.count)]
  /\ UNCHANGED <<store, tasks, memoryCache, hist, analytics, info>>

\* ws.on('close') of connection id: handleDisconnect(clientId)
closeEventOf(srv, id) ==
  /\ srv \in DOMAIN clients
  /\ \E i \in 1..Len(clients[srv]) :
       /\ clients[srv][i].id = id /\ ~clients[srv][i].open
       /\ Effects(srv, Disconnected(srv, id))
       /\ hist' = SetAdd(hist, id)
  /\ UNCHANGED <<store, calls, tasks, memoryCache, analytics, info>>

closeEvent(srv) == \E id \in ConnIds : closeEventOf(srv, id)

\* the timer's callback returns
ReturnPublish ==
  /\ calls[1].op = "publishToChannel"
  /\ calls' = [calls EXCEPT ![1] = Idle]
  /\ UNCHANGED <<store, tasks, memoryCache, hist, analytics, realtime, info>>

NextChannels ==
  \/ \E srv \in Servers : calls[1] = Idle /\ connection(srv)
  \/ \E srv \in Servers : calls[1] = Idle /\ channelMessage(srv)
  \/ \E srv \in Servers : calls[1] = Idle /\ broadcastCall(srv)
  \/ \E srv \in Servers : analyticsBroadcast(srv)
  \/ \E srv \in Servers : calls[1] = Idle /\ socketCloses(srv)
  \/ \E srv \in Servers : calls[1] = Idle /\ closeEvent(srv)
  \/ ReturnPublish

SpecChannels == InitRealtime /\ [][NextChannels]_vars

----------------------------------------------------------------------------
(* Properties of channels, broadcasts and disconnects *)

IdsOf(cs) == {cs[i].id : i \in 1..Len(cs)}
OpenIds(cs) == {cs[i].id : i \in {j \in 1..Len(cs) : cs[j].open}}
\* the connections the messages in q were sent to
SentTo(q) == {q[k].to : k \in 1..Len(q)}

\* C21: when the disconnect of a connection has been handled, the
\* connection is in no room and not in the registry, and nothing is sent to
\* it, neither by that handler nor by any later direct message, broadcast,
\* room broadcast or channel publication, for as long as it is not registered
ThmC21 ==
  [][\A srv \in DOMAIN clients :
       /\ \A i \in 1..Len(clients[srv]) :
            LET id == clients[srv][i].id
            IN  (/\ ~clients[srv][i].open
                 /\ Effects(srv, Disconnected(srv, id))) =>
                  /\ id \notin IdsOf(clients'[srv])
                  /\ \A j \in 1..Len(rooms'[srv]) : ~IsIn(rooms'[srv][j].members, id)
                  /\ id \notin SentTo(sent'[srv])
       /\ \A k \in 1..Len(hist) :
            (hist[k] \notin IdsOf(clients[srv]) /\ hist[k] \notin IdsOf(clients'[srv])) =>
              hist[k] \notin SentTo(sent'[srv])
    ]_vars

\* connection c1 has disconnected and is not registered; the other
\* connection, subscribed to "analytics", has just been sent a channel
\* message or a broadcast, and c1 has not
WitC21 ==
  \E srv \in DOMAIN clients :
    /\ IsIn(hist, "c1") /\ IdsOf(clients[srv]) = {"c2"}
    /\ \E k \in 1..Len(sent[srv]) :
         sent[srv][k].to = "c2" /\ sent[srv][k].data.type = "channel_message"
    /\ "c1" \notin SentTo(sent[srv])

----------------------------------------------------------------------------
(* The heartbeat of the realtime broadcaster *)

\* the heartbeat sparing a connection that did not answer
terminate_spare(W, i) == W

\* ws.terminate()
terminate(W, i) == [W EXCEPT !.clients[i].open = FALSE]

\* the body of the heartbeat's forEach for the socket of client i: a socket
\* whose close event is due is no longer in wss.clients
heartbeatOne(W, i) ==
  IF ~W.clients[i].open THEN W
  ELSE IF W.clients[i].isAlive = "false" THEN terminate(W, i)
  ELSE [W EXCEPT !.clients[i].isAlive = "false",
                 !.clients[i].pings = @ + 1,
                 !.sent = Append(@, [to |-> W.clients[i].id,
                                     data |-> Envelope("ping", "", "", -1, FALSE, <<>>)])]

RECURSIVE heartbeatEach(_, _)
heartbeatEach(W, i) ==
  IF i > Len(W.clients) THEN W ELSE heartbeatEach(heartbeatOne(W, i), i + 1)

\* setInterval(() => { this.wss.clients.forEach(...) }, 30000)
heartbeat(srv) ==
  /\ srv \in DOMAIN clients
  /\ clients[srv] # <<>>
  /\ Becomes(srv, heartbeatEach(Server(srv), 1))

\* the peer of an open connection answers a ping: part_006 has
\* ws.on('pong', () => { ws.isAlive = true; }), part_007 has no listener
pong(srv) ==
  /\ srv \in DOMAIN clients
  /\ \E i \in 1..Len(clients[srv]) :
       /\ clients[srv][i].open /\ clients[srv][i].pings > 0
       /\ Becomes(srv, [Server(srv) EXCEPT
                          !.clients[i].pings = 0,
                          !.clients[i].isAlive = IF srv = "part_006" THEN "true" ELSE @])

\* an open connection joins room "ops" with the message of its server
joinOps(srv) ==
  /\ srv \in DOMAIN clients
  /\ \E i \in 1..Len(clients[srv]) :
       /\ clients[srv][i].open
       /\ Becomes(srv, Handled(srv, clients[srv][i].id,
                               IF srv = "part_006" THEN Message("room_join", "ops", FALSE, Missing)
                               ELSE Message("join_room", Missing, TRUE, "ops")))

NextHeartbeat ==
  \/ \E srv \in Servers : connection(srv)
  \/ \E srv \in Servers : joinOps(srv)
  \/ \E srv \in Servers : heartbeat(srv)
  \/ \E srv \in Servers : pong(srv)
  \/ \E srv \in Servers : closeEvent(srv)

\* the close event of a terminated socket is emitted
SpecHeartbeat ==
  /\ InitRealtime /\ [][NextHeartbeat]_vars
  /\ \A srv \in Servers : \A id \in ConnIds : WF_vars(closeEventOf(srv, id))

\* connection id is registered and its socket has left the OPEN state
Closed(srv, id) ==
  \E i \in 1..Len(clients[srv]) : clients[srv][i].id = id /\ ~clients[srv][i].open

\* C22: at a heartbeat tick every open connection is pinged unless the tick
\* terminates it, and a connection that has not answered the ping of the
\* tick before is terminated; a terminated connection is then removed from
\* the registry and from its rooms; so no open connection has seen two
\* ticks since it last answered
ThmC22 ==
  /\ [][\A srv \in DOMAIN clients :
          Becomes(srv, heartbeatEach(Server(srv), 1)) =>
            \A i \in 1..Len(clients[srv]) :
              LET c == clients[srv][i]
                  d == clients'[srv][i]
              IN  c.open =>
                    /\ c.pings > 0 => ~d.open
                    /\ d.open => [to |-> c.id, data |-> Envelope("ping", "", "", -1, FALSE, <<>>)]
                                   \in {sent'[srv][k] : k \in 1..Len(sent'[srv])}
       ]_vars
  /\ [](\A srv \in DOMAIN clients :
          \A i \in 1..Len(clients[srv]) : clients[srv][i].open => clients[srv][i].pings <= 1)
  /\ \A srv \in Servers : \A id \in ConnIds :
       (srv \in DOMAIN clients /\ Closed(srv, id)) ~>
         (/\ srv \in DOMAIN clients
          /\ id \notin IdsOf(clients[srv])
          /\ \A j \in 1..Len(rooms[srv]) : ~IsIn(rooms[srv][j].members, id))

\* the heartbeat has terminated connection c1, a member of room "ops" that
\* did not answer its ping, and pinged c2
WitC22 ==
  \E srv \in DOMAIN clients :
    /\ Closed(srv, "c1") /\ clients[srv][ClientIndex(Server(srv), "c1")].pings = 1
    /\ "ops" \in RoomsOf(srv) /\ "c1" \in MembersOf(srv, "ops")
    /\ \E k \in 1..Len(sent[srv]) : sent[srv][k].to = "c2" /\ sent[srv][k].data.type = "ping"

----------------------------------------------------------------------------
(* Malformed messages *)

\* the messages that are malformed for server srv: a text that is not JSON,
\* and a subscribe or unsubscribe without the channel where the server
\* reads it (message.channel in part_006, message.data.channel in part_007)
Malformed(srv) ==
  {m \in ChannelMessages :
     \/ ~m.valid
     \/ /\ m.type \in {"subscribe", "unsubscribe"}
        /\ IF srv = "part_006" THEN m.channel = Missing
           ELSE ~m.hasData \/ m.dataChannel = Missing}

\* what the registry knows of each connection: its socket's state, its
\* rooms and its subscriptions
Standing(cs) ==
  [i \in 1..Len(cs) |-> <<cs[i].id, cs[i].open, cs[i].rooms, cs[i].subscriptions>>]

\* C23: when an open connection sends a malformed message, it is sent an
\* envelope of type error, it stays open and registered, and the rooms and
\* the subscriptions of all connections stay as they are
CexC23 ==
  [][\A srv \in DOMAIN clients :
       \A i \in 1..Len(clients[srv]) :
         \A m \in Malformed(srv) :
           (clients[srv][i].open /\ Becomes(srv, Handled(srv, clients[srv][i].id, m))) =>
             /\ \E k \in 1..Len(sent'[srv]) :
                  sent'[srv][k].to = clients[srv][i].id /\ sent'[srv][k].data.type = "error"
             /\ Standing(clients'[srv]) = Standing(clients[srv])
             /\ rooms'[srv] = rooms[srv]
    ]_vars

----------------------------------------------------------------------------
(* The analytics channel *)

\* the open connections that are subscribed to channel
Subscribers(cs, channel) ==
  {cs[i].id : i \in {j \in 1..Len(cs) : cs[j].open /\ channel \in cs[j].subscriptions}}

\* C28: a publication of the timer to channel "analytics" sends one
\* channel_message for that channel to each open connection subscribed to
\* it at that moment and nothing to anyone else, and publishToChannel
\* returns the number of these connections
ThmC28 ==
  [][\A srv \in DOMAIN clients :
       analyticsBroadcast(srv) =>
         LET to == Subscribers(clients[srv], "analytics")
         IN  /\ SentTo(sent'[srv]) = to
             /\ Len(sent'[srv]) = Cardinality(to)
             /\ \A k \in 1..Len(sent'[srv]) :
                  sent'[srv][k].data = ChannelEnvelope("channel_message", "analytics")
             /\ calls'[1] = Published(Cardinality(to))
    ]_vars

\* c1 and c2 are open and c1 alone is subscribed to "analytics": the last
\* publication went to c1 only and returned 1
WitC28 ==
  \E srv \in DOMAIN clients :
    /\ OpenIds(clients[srv]) = {"c1", "c2"}
    /\ Subscribers(clients[srv], "analytics") = {"c1"}
    /\ sent[srv] = <<[to |-> "c1", data |-> ChannelEnvelope("channel_message", "analytics")]>>
    /\ calls[1] = Published(1)

----------------------------------------------------------------------------
(* Broadcasts *)

\* the message with which a connection asks server srv for a broadcast to
\* room "ops"
RoomBroadcast(srv) ==
  IF srv = "part_006" THEN Message("room_message", "ops", TRUE, Missing)
  ELSE Message("broadcast", Missing, TRUE, "ops")

\* the open connections that are members of room
OpenMembers(srv, room) ==
  IF room \in RoomsOf(srv) THEN MembersOf(srv, room) \cap OpenIds(clients[srv]) ELSE {}

\* C29: a broadcast on behalf of a connection is sent once to every other
\* open connection and not to the connection itself; a broadcast to room
\* "ops" that a connection asks for is sent once to every open member of
\* the room at that moment but the connection itself, and to no one else
ThmC29 ==
  [][\A srv \in DOMAIN clients :
       \A i \in 1..Len(clients[srv]) :
         LET id == clients[srv][i].id
             all == OpenIds(clients[srv]) \ {id}
             members == OpenMembers(srv, "ops") \ {id}
         IN  clients[srv][i].open =>
               /\ Becomes(srv, broadcast(Server(srv), Payload(id, ""), id)) =>
                    /\ SentTo(sent'[srv]) = all
                    /\ Len(sent'[srv]) = Cardinality(all)
               /\ Becomes(srv, Handled(srv, id, RoomBroadcast(srv))) =>
                    /\ SentTo(sent'[srv]) = members
                    /\ Len(sent'[srv]) = Cardinality(members)
    ]_vars

\* c1 and c2 are open and both in room "ops", and the last handler sent
\* c1's payload for the room to c2 alone
WitC29 ==
  \E srv \in DOMAIN clients :
    /\ OpenIds(clients[srv]) = {"c1", "c2"}
    /\ OpenMembers(srv, "ops") = {"c1", "c2"}
    /\ Len(sent[srv]) = 1 /\ sent[srv][1].to = "c2"
    /\ sent[srv][1].data.type \in {"data", "message"}
    /\ sent[srv][1].data.room = "ops" /\ sent[srv][1].data.clientId = "c1"

----------------------------------------------------------------------------
(* The request pipeline: app.get('/api/:service/:action?') of index.js, in *)
(* its first form (lines 111-192, no analytics middleware) and its second  *)
(* (lines 401-465, behind analyticsMiddleware, with cacheAside).  The      *)
(* request is GET /api/geo/ip for a configured service.  What the rate     *)
(* limiter, the store, the probes and the upstream answer are inputs of    *)
(* the steps.  History: trace, the parts consulted in order; n, the        *)
(* invocations of the function passed to cacheAside; cause, why the        *)
(* request failed; hist logs the responses.                                *)

\* most requests served
MaxRequests == 2

Routes == {"first", "second"}

\* the outcomes of the three probes of verifyUptime(api.endpoint)
ProbeRuns == {<<200, 200, 200>>, <<200, 500, 200>>, <<500, 200, 500>>, <<500, 500, 500>>}

ProxyFrame(route) ==
  [op |-> "proxy", pc |-> "rateLimit", route |-> route, inCatch |-> FALSE,
   n |-> 0, trace |-> <<>>, cause |-> "none", status |-> 0]

\* the request enters its route (the second form through analyticsMiddleware)
proxyRequest(p) ==
  /\ p = 1 /\ Free(p) /\ Len(hist) < MaxRequests
  /\ \E route \in Routes : calls' = [calls EXCEPT ![p] = ProxyFrame(route)]
  /\ UNCHANGED <<store, tasks, memoryCache, hist, analytics, realtime, info>>

\* res.status(status).json(body), body.cached being cached: the override of
\* analyticsMiddleware records the response, then the handler returns
Respond(p, c, status, cached, cause) ==
  LET r == Response("/api/geo/ip", "geo", status, cached, 1) IN
  /\ calls' = [calls EXCEPT ![p] =
       [c EXCEPT !.pc = "done", !.status = status, !.cause = cause,
                 !.trace = IF c.route = "second" THEN Append(@, "record") ELSE @]]
  /\ analytics' = IF c.route = "second" THEN Record(analytics, r) ELSE analytics
  /\ hist' = Append(hist, r)

Continue(p, c, pc) ==
  /\ calls' = [calls EXCEPT ![p] = [c EXCEPT !.pc = pc]]
  /\ UNCHANGED <<hist, analytics>>

\* cacheAside's catch block: return { data: await fetchFn(), cached: false }
Catch(p, c) ==
  /\ calls' = [calls EXCEPT ![p] = [c EXCEPT !.pc = "uptime", !.inCatch = TRUE]]
  /\ UNCHANGED <<hist, analytics>>

\* an error thrown by the function passed to cacheAside, or by the first
\* form's steps: inside cacheAside's try block it is caught there, otherwise
\* it reaches the route, whose answer is status
Throw(p, c, status, cause) ==
  IF c.route = "second" /\ ~c.inCatch THEN Catch(p, c)
  ELSE Respond(p, c, status, "none", cause)

\* proxyRateLimit letting a denied request go on to the cache
proxyRateLimit_goon(p) ==
  /\ calls[p].op = "proxy" /\ calls[p].pc = "rateLimit"
  /\ LET c == [calls[p] EXCEPT !.trace = Append(@, "rateLimit")] IN
     \E denied \in BOOLEAN :
       IF denied THEN Continue(p, [c EXCEPT !.cause = "rate"], "get")
       ELSE Continue(p, c, "get")
  /\ UNCHANGED <<store, tasks, memoryCache, realtime, info>>

\* if (await rateLimit(service, userId)) return res.status(429).json(...)
proxyRateLimit(p) ==
  /\ calls[p].op = "proxy" /\ calls[p].pc = "rateLimit"
  /\ LET c == [calls[p] EXCEPT !.trace = Append(@, "rateLimit")] IN
     \E denied \in BOOLEAN :
       IF denied THEN Respond(p, c, 429, "none", "rate") ELSE Continue(p, c, "get")
  /\ UNCHANGED <<store, tasks, memoryCache, realtime, info>>

\* await redis.get(cacheKey): in the first form a failure is logged and the
\* request goes on; in the second it is thrown inside cacheAside's try block
proxyCacheGet(p) ==
  /\ calls[p].op = "proxy" /\ calls[p].pc = "get"
  /\ LET c == [calls[p] EXCEPT !.trace = Append(@, "get")] IN
     \E outcome \in {"hit", "miss", "throw"} :
       CASE outcome = "hit" -> Respond(p, c, 200, "true", "none")
         [] outcome = "miss" -> Continue(p, c, "uptime")
         [] outcome = "throw" ->
              IF c.route = "first" THEN Continue(p, c, "uptime") ELSE Catch(p, c)
  /\ UNCHANGED <<store, tasks, memoryCache, realtime, info>>

\* const uptime = await verifyUptime(api.endpoint): the first form answers
\* 503 when it is not up; in the second this is the first step of the
\* function passed to cacheAside, which throws when it is not up
proxyVerifyUptime(p) ==
  /\ calls[p].op = "proxy" /\ calls[p].pc = "uptime"
  /\ LET c == [calls[p] EXCEPT !.trace = Append(@, "verifyUptime"),
                               !.n = IF calls[p].route = "second" THEN @ + 1 ELSE @] IN
     \E probes \in ProbeRuns :
       IF UptimeResult(probes, 3).up THEN Continue(p, c, "fetch")
       ELSE IF c.route = "first" THEN Respond(p, c, 503, "none", "uptime")
       ELSE Throw(p, c, 502, "uptime")
  /\ UNCHANGED <<store, tasks, memoryCache, realtime, info>>

\* const response = await axios.get(targetUrl, ...)
proxyFetch(p) ==
  /\ calls[p].op = "proxy" /\ calls[p].pc = "fetch"
  /\ LET c == [calls[p] EXCEPT !.trace = Append(@, "fetch")] IN
     \E ok \in BOOLEAN :
       IF ~ok THEN Throw(p, c, 502, "upstream")
       ELSE IF c.route = "second" /\ c.inCatch THEN Respond(p, c, 200, "false", "none")
       ELSE Continue(p, c, "setEx")
  /\ UNCHANGED <<store, tasks, memoryCache, realtime, info>>

\* await redis.setEx(cacheKey, ttl, JSON.stringify(...)): the first form
\* swallows a failure (.catch), cacheAside's try block does not
proxySetEx(p) ==
  /\ calls[p].op = "proxy" /\ calls[p].pc = "setEx"
  /\ LET c == [calls[p] EXCEPT !.trace = Append(@, "setEx")] IN
     \E ok \in BOOLEAN :
       IF ok \/ c.route = "first" THEN Respond(p, c, 200, "false", "none")
       ELSE Catch(p, c)
  /\ UNCHANGED <<store, tasks, memoryCache, realtime, info>>

ReturnProxy(p) ==
  /\ calls[p].op = "proxy" /\ calls[p].pc = "done"
  /\ calls' = [calls EXCEPT ![p] = Idle]
  /\ UNCHANGED <<store, tasks, memoryCache, hist, analytics, realtime, info>>

InitPipeline ==
  /\ store = [k \in {"cache:a"} |-> Absent]
  /\ calls = [p \in Procs |-> Idle]
  /\ tasks = <<>>
  /\ memoryCache = <<>>
  /\ hist = <<>>
  /\ otherPartsInit

NextPipeline ==
  \E p \in Procs :
    \/ proxyRequest(p)
    \/ proxyRateLimit(p)
    \/ proxyCacheGet(p)
    \/ proxyVerifyUptime(p)
    \/ proxyFetch(p)
    \/ proxySetEx(p)
    \/ ReturnProxy(p)

SpecPipeline == InitPipeline /\ [][NextPipeline]_vars

----------------------------------------------------------------------------
(* Properties of the request pipeline *)

\* the requests that have been answered
Answered == {p \in Procs : calls[p].op = "proxy" /\ calls[p].pc = "done"}

\* the places of part in trace
Places(trace, part) == {i \in 1..Len(trace) : trace[i] = part}

\* C24: a request consults the rate limiter first; one that the rate
\* limiter allows consults the uptime oracle, and does so before the cache
\* is read; the record in the analytics comes last
CexC24 ==
  \A p \in Answered :
    LET t == calls[p].trace IN
    /\ t[1] = "rateLimit"
    /\ t[Len(t)] = "record"
    /\ calls[p].status # 429 =>
         /\ Places(t, "verifyUptime") # {}
         /\ \A i \in Places(t, "get") : \E j \in Places(t, "verifyUptime") : j < i

\* C25: a request that fails because the uptime oracle found no quorum is
\* answered with 503, one that fails because the upstream fetch failed with
\* 502, one that the rate limiter denies with 429, and the error counted in
\* the analytics is the one of that status
CexC25 ==
  \A p \in Answered :
    LET c == calls[p]
        status == CASE c.cause = "uptime" -> 503
                    [] c.cause = "upstream" -> 502
                    [] c.cause = "rate" -> 429
                    [] OTHER -> 200
    IN  /\ c.status = status
        /\ c.cause # "none" =>
             MapHas(analytics.errors, ErrorKey(Response("/api/geo/ip", "geo", status, "none", 1)))

\* C26: a request whose upstream fetch failed is answered with 502, and no
\* request invokes the function it passes to cacheAside more than once
CexC26 ==
  \A p \in Answered :
    /\ calls[p].cause = "upstream" => calls[p].status = 502
    /\ calls[p].n <= 1

----------------------------------------------------------------------------
(* The cache key of a proxy request.  A string is the sequence of its      *)
(* pieces; a request is its :service and :action route parameters (action  *)
(* Missing when the path has none) and req.query, the parameters in the    *)
(* order of the query string.                                              *)

QueryNames == {"a", "b"}
QueryValues == {"1", "2"}

\* the query strings: no parameter, one, or two with different names
Queries ==
  LET Pairs == [name : QueryNames, value : QueryValues]
  IN  {<<>>} \cup {<<x>> : x \in Pairs}
        \cup {xy \in Pairs \X Pairs : xy[1].name # xy[2].name}

Requests ==
  [service : {"geo", "news"}, action : {Missing, "ip", "default"}, query : Queries]

\* JSON.stringify(req.query): the properties in the order of the object
RECURSIVE Properties(_)
Properties(query) ==
  IF query = <<>> THEN <<>>
  ELSE <<"\"", Head(query).name, "\":\"", Head(query).value, "\"">>
         \o (IF Tail(query) = <<>> THEN <<>> ELSE <<",">>) \o Properties(Tail(query))

StringifyQuery(query) == <<"{">> \o Properties(query) \o <<"}">>

\* `cache:${service}:${action || 'default'}:${JSON.stringify(req.query)}`
cacheKey(req) ==
  <<"cache:", req.service, ":", IF req.action = Missing THEN "default" ELSE req.action, ":">>
    \o StringifyQuery(req.query)

\* the route computes the key of a request
proxyCacheKey(p) ==
  /\ Free(p)
  /\ \E req \in Requests :
       calls' = [calls EXCEPT ![p] =
          [op |-> "cacheKey", pc |-> "done", req |-> req, res |-> cacheKey(req)]]
  /\ UNCHANGED <<store, tasks, memoryCache, hist, analytics, realtime, info>>

ReturnCacheKey(p) ==
  /\ calls[p].op = "cacheKey" /\ calls[p].pc = "done"
  /\ calls' = [calls EXCEPT ![p] = Idle]
  /\ UNCHANGED <<store, tasks, memoryCache, hist, analytics, realtime, info>>

NextCacheKey == \E p \in Procs : proxyCacheKey(p) \/ ReturnCacheKey(p)

SpecCacheKey == InitPipeline /\ [][NextCacheKey]_vars

\* the parameters of a query, whatever their order
Parameters(query) == {query[i] : i \in 1..Len(query)}

\* two requests are the same logical request
SameRequest(r1, r2) ==
  /\ r1.service = r2.service
  /\ r1.action = r2.action
  /\ Parameters(r1.query) = Parameters(r2.query)

\* C27: two requests get the same cache key if and only if they have the
\* same service, the same action (or both none) and the same query
\* parameters, in whatever order
CexC27 ==
  \A p, q \in Procs :
    (calls[p].op = "cacheKey" /\ calls[q].op = "cacheKey") =>
      (SameRequest(calls[p].req, calls[q].req) <=> calls[p].res = calls[q].res)

----------------------------------------------------------------------------
(* getStats of the cache engine.  The store is shared: its server counts   *)
(* the GETs of every client in keyspace_hits and keyspace_misses.  hist is *)
(* history: what the GETs of this engine found.  A number as text is the   *)
(* record of its digits' value and of its decimals.                        *)

\* most GETs the server has counted
MaxGets == 3

StoreClients == {"engine", "other"}

\* the decimal text of n with the given number of decimals, n counting the
\* last decimal
Text(n, decimals) == [value |-> n, decimals |-> decimals]

\* extractStat(info, key): the text after `${key}:`
extractStat(stats, key) ==
  Text(IF key = "keyspace_hits" THEN stats.keyspace_hits ELSE stats.keyspace_misses, 0)

\* parseInt of the text of an integer
parseInt(text) == text.value

\* calculateHitRate dividing the hits by the misses
calculateHitRate_ofMisses(stats) ==
  LET hits == parseInt(extractStat(stats, "keyspace_hits"))
      misses == parseInt(extractStat(stats, "keyspace_misses"))
      total == hits + misses
  IN  IF total > 0 /\ misses > 0 THEN Text(RoundDiv(hits * 10000, misses), 2) ELSE Text(0, 0)

\* calculateHitRate(info): total > 0 ? ((hits / total) * 100).toFixed(2) : '0'
calculateHitRate(stats) ==
  LET hits == parseInt(extractStat(stats, "keyspace_hits"))
      misses == parseInt(extractStat(stats, "keyspace_misses"))
      total == hits + misses
  IN  IF total > 0 THEN Text(RoundDiv(hits * 10000, total), 2) ELSE Text(0, 0)

NullStats == [null |-> TRUE, hits |-> Text(0, 0), misses |-> Text(0, 0), hitRate |-> Text(0, 0)]

\* the object getStats returns (keyspace, memory and timestamp left out)
Stats(stats) ==
  [null |-> FALSE,
   hits |-> extractStat(stats, "keyspace_hits"),
   misses |-> extractStat(stats, "keyspace_misses"),
   hitRate |-> calculateHitRate(stats)]

\* a client of the store, this engine or another one, does a GET
storeGet ==
  /\ info.keyspace_hits + info.keyspace_misses < MaxGets
  /\ \E self \in StoreClients, k \in DOMAIN store :
       LET found == IF store[k].present THEN "hit" ELSE "miss" IN
       /\ info' = IF store[k].present
                  THEN [info EXCEPT !.keyspace_hits = @ + 1]
                  ELSE [info EXCEPT !.keyspace_misses = @ + 1]
       /\ hist' = IF self = "engine" THEN Append(hist, found) ELSE hist
  /\ UNCHANGED <<store, calls, tasks, memoryCache, analytics, realtime>>

\* a client of the store stores a value
storeSet ==
  /\ \E k \in DOMAIN store :
       /\ ~store[k].present
       /\ store' = RedisSetEx(store, k, DefaultTTL, JSON_stringify("v1"), "v1")
  /\ UNCHANGED <<calls, tasks, memoryCache, hist, otherParts>>

\* getStats(): await this.redis.info('stats')
getStats(p) ==
  /\ p = 1 /\ Free(p)
  /\ calls' = [calls EXCEPT ![p] =
       [op |-> "getStats", pc |-> "info", stats |-> infoInit, res |-> NullStats]]
  /\ UNCHANGED <<store, tasks, memoryCache, hist, otherParts>>

\* the store answers info('stats'), or the call throws and getStats
\* returns null
getStatsInfo(p) ==
  /\ calls[p].op = "getStats" /\ calls[p].pc = "info"
  /\ \E ok \in BOOLEAN :
       calls' = [calls EXCEPT ![p] =
          IF ok THEN [@ EXCEPT !.pc = "memory", !.stats = info]
          ELSE [@ EXCEPT !.pc = "done"]]
  /\ UNCHANGED <<store, tasks, memoryCache, hist, otherParts>>

\* the store answers info('memory') and dbSize(), and the object is built
\* from the text of info('stats'); or one of them throws
getStatsReturn(p) ==
  /\ calls[p].op = "getStats" /\ calls[p].pc = "memory"
  /\ \E ok \in BOOLEAN :
       calls' = [calls EXCEPT ![p] =
          IF ok THEN [@ EXCEPT !.pc = "done", !.res = Stats(calls[p].stats)]
          ELSE [@ EXCEPT !.pc = "done"]]
  /\ UNCHANGED <<store, tasks, memoryCache, hist, otherParts>>

ReturnStats(p) ==
  /\ calls[p].op = "getStats" /\ calls[p].pc = "done"
  /\ calls' = [calls EXCEPT ![p] = Idle]
  /\ UNCHANGED <<store, tasks, memoryCache, hist, otherParts>>

InitStats ==
  /\ store = [k \in {"cache:a", "cache:b"} |-> Absent]
  /\ calls = [p \in Procs |-> Idle]
  /\ tasks = <<>>
  /\ memoryCache = <<>>
  /\ hist = <<>>
  /\ otherPartsInit

NextStats ==
  \/ storeGet
  \/ storeSet
  \/ \E p \in Procs : getStats(p)
  \/ \E p \in Procs : getStatsInfo(p)
  \/ \E p \in Procs : getStatsReturn(p)
  \/ \E p \in Procs : ReturnStats(p)

SpecStats == InitStats /\ [][NextStats]_vars

\* C30: the object getStats returns has the server's keyspace_hits and
\* keyspace_misses as they were when the server answered, and a hit rate of
\* hits / (hits + misses) * 100, to two decimals, or zero when there were
\* none; the server's answer is its own count of the GETs of all clients
ThmC30 ==
  [][\A p \in Procs :
       /\ (calls[p].op = "getStats" /\ calls[p].pc = "info" /\ calls'[p].pc = "memory") =>
            calls'[p].stats = info
       /\ (calls'[p].op = "getStats" /\ calls'[p].pc = "done" /\ ~calls'[p].res.null) =>
            LET h == calls'[p].stats.keyspace_hits
                m == calls'[p].stats.keyspace_misses
                r == calls'[p].res
            IN  /\ r.hits.value = h /\ r.misses.value = m
                /\ h + m = 0 => r.hitRate.value = 0
                /\ h + m > 0 =>
                     /\ r.hitRate.decimals = 2
                     /\ 2 * (h + m) * r.hitRate.value <= 2 * 10000 * h + (h + m)
                     /\ 2 * (h + m) * r.hitRate.value > 2 * 10000 * h - (h + m)
    ]_vars

\* the engine's own GETs found nothing twice, another client's GET found a
\* value, and getStats returned 1 hit, 2 misses and a hit rate of 33.33
WitC30 ==
  \E p \in Procs :
    /\ calls[p].op = "getStats" /\ calls[p].pc = "done"
    /\ hist = <<"miss", "miss">>
    /\ calls[p].res = [null |-> FALSE, hits |-> Text(1, 0), misses |-> Text(2, 0),
                       hitRate |-> Text(3333, 2)]

----------------------------------------------------------------------------
(* Interleaved cacheAside calls *)

\* C31: cacheAside takes no lock between its read and its write: a call
\* that wrote saw a miss, invoked fetchFn once and returns its own data with
\* cached=false whatever the other call did, and each completed write leaves
\* its own entry under the key over whatever was there, so that the entry of
\* the last write stays
ThmC31 ==
  /\ [](\A p \in Done("cacheAside") :
          LET c == calls[p] IN
          c.wrote # Absent =>
            c.seen = "" /\ c.n = 1 /\ c.res = Ok(c.data, FALSE)
              /\ c.wrote = Entry(c.data, c.ttl))
  /\ [][
       \A p \in Procs :
         (calls[p].op = "cacheAside" /\ calls[p].pc = "set" /\ calls'[p].pc = "done") =>
           store'[calls[p].key] = Entry(calls[p].data, calls[p].ttl)
     ]_vars

\* two cacheAside calls for the same absent key that both missed, both
\* invoked fetchFn and both wrote; the entry in the store is the one of the
\* second writer and differs from what the first one wrote
WitC31 ==
  /\ Done("cacheAside") = Procs
  /\ calls[1].key = calls[2].key
  /\ \A p \in Procs :
       LET c == calls[p] IN
       c.seen = "" /\ c.n = 1 /\ c.wrote # Absent /\ c.res = Ok(c.data, FALSE)
  /\ store[calls[1].key] = calls[2].wrote
  /\ store[calls[1].key] # calls[1].wrote

----------------------------------------------------------------------------
(* The window of a rate-limit counter *)

\* the calls that are about to set the expiry of key k
Expiring(k) ==
  {p \in Procs : calls[p].op = "rateLimit" /\ calls[p].pc = "expire" /\ calls[p].key = k}

\* C32: a rateLimit call goes on to set the expiry exactly when its incr
\* answered 1; per counter at most one call is about to set the expiry, and
\* the counter has none until then; the expiry of a counter changes only by
\* that call setting it to 60 seconds, once, and by time passing, so no
\* later call of the window extends it
ThmC32 ==
  /\ [](\A k \in RateKeys :
          /\ Cardinality(Expiring(k)) <= 1
          /\ Expiring(k) # {} => store[k].present /\ store[k].ttl = -1
          /\ store[k].present => store[k].ttl <= WindowSec)
  /\ [][
       /\ \A p \in Procs :
            IncrAnswered(p) =>
              ((calls'[p].pc = "expire") <=> (store'[calls[p].key].num = 1))
       /\ \A k \in RateKeys :
            /\ (~store[k].present /\ store'[k].present) => store'[k].ttl = -1
            /\ (store[k].present /\ store'[k].present /\ store'[k].ttl # store[k].ttl) =>
                 \/ store[k].ttl > 0 /\ store'[k].ttl < store[k].ttl
                 \/ /\ store[k].ttl = -1 /\ store'[k].ttl = WindowSec
                    /\ \E p \in Expiring(k) : ExpireAnswered(p)
     ]_vars

\* two calls for one counter were in flight together: the first one created
\* the counter and set its expiry, the second one counted 2 and left the
\* expiry alone
WitC32 ==
  /\ \A p \in Procs :
       calls[p].op = "rateLimit" /\ calls[p].pc = "done" /\ ~calls[p].sfail
  /\ calls[1].key = calls[2].key
  /\ store[calls[1].key].num = 2 /\ store[calls[1].key].ttl = WindowSec
  /\ hist[calls[1].key].clean

\* C33 as stated: every counter key in the store, once the call that created
\* it is through with its expire, has a window expiry set, store failures
\* included
CexC33 ==
  \A k \in RateKeys :
    (store[k].present /\ Expiring(k) = {}) => store[k].ttl > 0

----------------------------------------------------------------------------
(* A denied request *)

\* C34: a request the rate limiter denies is answered with 429 in the step
\* of the rate limiter: it has consulted nothing but the rate limiter, read
\* and written no cache entry, run no uptime probe and no upstream fetch
\* and not invoked the function passed to cacheAside; only the analytics
\* middleware of the second form has recorded the answer.  No other request
\* is answered with 429.
ThmC34 ==
  \A p \in Procs :
    LET c == calls[p] IN
    (c.op = "proxy" /\ (c.cause = "rate" \/ c.status = 429)) =>
      /\ c.pc = "done" /\ c.status = 429 /\ c.cause = "rate" /\ c.n = 0
      /\ \A part \in {"get", "setEx", "verifyUptime", "fetch"} : Places(c.trace, part) = {}
      /\ c.trace = IF c.route = "second" THEN <<"rateLimit", "record">> ELSE <<"rateLimit">>

\* a request was served from upstream, and the next one, denied by the rate
\* limiter, is answered with 429 in the second form of the route
WitC34 ==
  /\ Len(hist) = 2 /\ hist[1].statusCode = 200 /\ hist[2].statusCode = 429
  /\ \E p \in Answered : calls[p].status = 429 /\ calls[p].route = "second"

----------------------------------------------------------------------------
(* The multi-level accessor beside invalidatePattern: values are stored    *)
(* through set and read through get, invoked on the engine with the store  *)
(* working for set, and between two such calls invalidatePattern removes   *)
(* keys from the store; one call is in flight at a time                    *)

NextInvalidated ==
  \/ mlGet(1) /\ calls'[1].self = "engine"
  \/ mlGetL2(1)
  \/ mlSet(1) /\ calls'[1].self = "engine"
  \/ mlSetL2(1) /\ ~calls'[1].sfail
  \/ ReturnML(1)
  \/ invalidatePattern(1)
  \/ invalidatePatternScan(1)
  \/ invalidatePatternDel(1)
  \/ ReturnInv(1)

SpecInvalidated == InitInv /\ [][NextInvalidated]_vars

\* C35 as stated: get(key) answers from L1 only for a key that is in the
\* store
CexC35 ==
  [][
      \A p \in Procs :
        (Returns(p, "mlGet") /\ calls'[p].res.level = "L1") => store[calls'[p].key].present
    ]_vars

----------------------------------------------------------------------------
(* Connections that answer the heartbeat *)

\* C36 as stated: in either server a heartbeat tick leaves open every open
\* connection that has answered every ping it was sent
CexC36 ==
  [][
      \A srv \in DOMAIN clients :
        Becomes(srv, heartbeatEach(Server(srv), 1)) =>
          \A i \in 1..Len(clients[srv]) :
            (clients[srv][i].open /\ clients[srv][i].pings = 0) => clients'[srv][i].open
    ]_vars

----------------------------------------------------------------------------
(* Rooms and registry *)

\* the rooms connection i of server srv lists as joined
JoinedBy(srv, i) == {clients[srv][i].rooms[j] : j \in 1..Len(clients[srv][i].rooms)}

\* C37: every member of every room is a connection of the registry, and in
\* part_007, which keeps the joined rooms with each connection, a connection
\* lists a room iff the room exists and has the connection as a member
ThmC37 ==
  \A srv \in DOMAIN clients :
    /\ \A room \in RoomsOf(srv) : MembersOf(srv, room) \subseteq Registered(srv)
    /\ srv = "part_007" =>
         \A i \in 1..Len(clients[srv]) :
           /\ \A room \in JoinedBy(srv, i) :
                room \in RoomsOf(srv) /\ clients[srv][i].id \in MembersOf(srv, room)
           /\ \A room \in RoomsOf(srv) :
                clients[srv][i].id \in MembersOf(srv, room) => room \in JoinedBy(srv, i)

\* in part_007 both connections had joined room "ops" and c1 also room
\* "dev"; c2 has disconnected and c1 is left in both rooms, listing both
WitC37 ==
  /\ DOMAIN clients = {"part_007"}
  /\ Registered("part_007") = {"c1"}
  /\ RoomsOf("part_007") = {"ops", "dev"}
  /\ JoinedBy("part_007", 1) = {"ops", "dev"}
  /\ \E k \in 1..Len(sent["part_007"]) :
       /\ sent["part_007"][k].to = "c1"
       /\ sent["part_007"][k].data.type = "user_left"
       /\ sent["part_007"][k].data.room = "ops"
       /\ sent["part_007"][k].data.clientId = "c2"

----------------------------------------------------------------------------
(* Leaving a room one is not in *)

\* the leave request of each server's protocol
LeaveMessage(srv, room) ==
  IF srv = "part_006" THEN Message("room_leave", room, FALSE, Missing)
  ELSE Message("leave_room", Missing, TRUE, room)

\* C38 as stated: the leave request of an open connection for a room it is
\* not a member of changes no room and sends nothing
CexC38 ==
  [][
      \A srv \in DOMAIN clients :
        \A i \in 1..Len(clients[srv]), room \in RoomNames :
          LET id == clients[srv][i].id IN
          (/\ clients[srv][i].open
           /\ ~(room \in RoomsOf(srv) /\ id \in MembersOf(srv, room))
           /\ Becomes(srv, Handled(srv, id, LeaveMessage(srv, room))))
          => rooms'[srv] = rooms[srv] /\ sent'[srv] = <<>>
    ]_vars

----------------------------------------------------------------------------
(* Tool call routing: MessageHandler, src/mcp/message-handler.ts.  A tool  *)
(* name is the sequence of its pieces, "_" being the separator character;  *)
(* a JavaScript value is its typeof and a name.  A call frame holds the    *)
(* attempt number; n, the invocations of the method so far, and trace, the *)
(* delays slept so far, are history; hist logs the outcomes of the calls.  *)

\* retryConfig
maxRetries == 3
backoff == "exponential"
initialDelay == 1000
maxDelay == 10000

\* most tool calls routed
MaxCalls == 2

JSUndefined == [type |-> "undefined", name |-> ""]
JSString == [type |-> "string", name |-> ""]
JSFunction(name) == [type |-> "function", name |-> name]
JSObject(name) == [type |-> "object", name |-> name]

\* the servers argument: one registered server, with a method and a
\* property that is no function
servers == [weather |-> [now |-> JSFunction("weather.now"), units |-> JSString]]

\* the servers object itself
ServersObject == JSObject("servers")

\* the own properties of a value
Own(v) ==
  IF v = ServersObject THEN [name \in DOMAIN servers |-> JSObject(name)]
  ELSE IF v.type = "object" /\ v.name \in DOMAIN servers THEN servers[v.name]
  ELSE IF v = JSFunction("Object") THEN [keys |-> JSFunction("Object.keys")]
  ELSE <<>>

\* the properties every object and function inherits from Object.prototype
Inherited(v) ==
  IF v.type \in {"object", "function"}
  THEN [constructor |-> JSFunction(IF v.type = "object" THEN "Object" ELSE "Function")]
  ELSE <<>>

\* v[name]: the own property, else the inherited one, else undefined
Property(v, name) ==
  IF name \in DOMAIN Own(v) THEN Own(v)[name]
  ELSE IF name \in DOMAIN Inherited(v) THEN Inherited(v)[name]
  ELSE JSUndefined

\* the tool names routeToolCall is called with
ToolNames ==
  { <<"weather", "_", "now">>, <<"weather", "_", "units">>,
    <<"weather", "_", "get", "_", "forecast">>, <<"weather">>,
    <<"news", "_", "now">>, <<"_", "now">>, <<"constructor", "_", "keys">> }

\* toolName.split('_'): the pieces between the separators, "" for an empty
\* one
RECURSIVE split(_, _)
split(s, piece) ==
  IF s = <<>> THEN <<piece>>
  ELSE IF Head(s) = "_" THEN <<piece>> \o split(Tail(s), "")
  ELSE split(Tail(s), piece \o Head(s))

\* const [serverName, methodName] = toolName.split('_')
serverName(toolName) == split(toolName, "")[1]
methodName(toolName) ==
  IF Len(split(toolName, "")) >= 2 THEN split(toolName, "")[2] ELSE Missing

\* createError(message, code)
createError(message, code) ==
  [status |-> "throw", of |-> 0, code |-> code, message |-> message]

\* what invocation k of the method returned, and the error it threw
Returned(k) == [status |-> "ok", of |-> k, code |-> 0, message |-> ""]
Threw(k) == [status |-> "throw", of |-> k, code |-> 0, message |-> "failed"]

\* calculateDelay(attempt)
RECURSIVE Pow2(_)
Pow2(e) == IF e = 0 THEN 1 ELSE 2 * Pow2(e - 1)
Min(a, b) == IF a <= b THEN a ELSE b
calculateDelay(attempt) ==
  IF backoff = "exponential"
  THEN Min(initialDelay * Pow2(attempt - 1), maxDelay)
  ELSE Min(initialDelay * attempt, maxDelay)

\* routeToolCall(toolName, args, servers) up to its await
routeToolCall(p) ==
  /\ p = 1 /\ Free(p) /\ Len(hist) < MaxCalls
  /\ \E toolName \in ToolNames :
       LET server == Property(ServersObject, serverName(toolName))
           method == Property(server, methodName(toolName))
           c == [op |-> "routeToolCall", pc |-> "fn", toolName |-> toolName,
                 method |-> method, attempt |-> 1, n |-> 0, trace |-> <<>>, res |-> NoRes]
       IN  calls' = [calls EXCEPT ![p] =
             IF server.type = "undefined"
             THEN [c EXCEPT !.pc = "done", !.res = createError("Unknown server", -32601)]
             ELSE IF method.type # "function"
             THEN [c EXCEPT !.pc = "done", !.res = createError("Unknown method", -32601)]
             ELSE c]
  /\ UNCHANGED <<store, tasks, memoryCache, hist, otherParts>>

\* executeWithRetry giving up one failure later
executeWithRetry_more(p) ==
  LET c == calls[p]
      k == c.n + 1
  IN
  /\ c.op = "routeToolCall" /\ c.pc = "fn"
  /\ \E ok \in BOOLEAN :
       calls' = [calls EXCEPT ![p] =
         IF ok THEN [c EXCEPT !.pc = "done", !.n = k, !.res = Returned(k)]
         ELSE IF c.attempt > maxRetries
         THEN [c EXCEPT !.pc = "done", !.n = k, !.res = Threw(k)]
         ELSE [c EXCEPT !.pc = "sleep", !.n = k,
                        !.trace = Append(@, calculateDelay(c.attempt))]]
  /\ UNCHANGED <<store, tasks, memoryCache, hist, otherParts>>

\* executeWithRetry(fn, toolName, attempt): return await fn(); a failure
\* of the last attempt is rethrown, an earlier one leads to the sleep
executeWithRetry(p) ==
  LET c == calls[p]
      k == c.n + 1
  IN
  /\ c.op = "routeToolCall" /\ c.pc = "fn"
  /\ \E ok \in BOOLEAN :
       calls' = [calls EXCEPT ![p] =
         IF ok THEN [c EXCEPT !.pc = "done", !.n = k, !.res = Returned(k)]
         ELSE IF c.attempt >= maxRetries
         THEN [c EXCEPT !.pc = "done", !.n = k, !.res = Threw(k)]
         ELSE [c EXCEPT !.pc = "sleep", !.n = k,
                        !.trace = Append(@, calculateDelay(c.attempt))]]
  /\ UNCHANGED <<store, tasks, memoryCache, hist, otherParts>>

\* await this.sleep(delay); return this.executeWithRetry(fn, toolName,
\* attempt + 1)
sleep(p) ==
  /\ calls[p].op = "routeToolCall" /\ calls[p].pc = "sleep"
  /\ calls' = [calls EXCEPT ![p] = [calls[p] EXCEPT !.pc = "fn", !.attempt = @ + 1]]
  /\ UNCHANGED <<store, tasks, memoryCache, hist, otherParts>>

\* the call settles with its outcome
ReturnRoute(p) ==
  /\ calls[p].op = "routeToolCall" /\ calls[p].pc = "done"
  /\ calls' = [calls EXCEPT ![p] = Idle]
  /\ hist' = Append(hist, calls[p].res)
  /\ UNCHANGED <<store, tasks, memoryCache, otherParts>>

NextRoute ==
  \E p \in Procs :
    \/ routeToolCall(p)
    \/ executeWithRetry(p)
    \/ sleep(p)
    \/ ReturnRoute(p)

\* an invoked method settles and a timer fires
SpecRoute ==
  /\ InitPipeline /\ [][NextRoute]_vars
  /\ WF_vars(executeWithRetry(1)) /\ WF_vars(sleep(1))

----------------------------------------------------------------------------
(* Properties of the tool call routing *)

\* the calls that passed the checks of routeToolCall
Routed == {p \in Procs : calls[p].op = "routeToolCall" /\ calls[p].method.type = "function"}

\* C39: a routed call invokes the method at most maxRetries (3) times; it
\* has slept min(initialDelay * 2^(k-1), maxDelay) after failed invocation
\* k, 1000 ms and then 2000 ms; it returns the result of the invocation that
\* succeeded, which is its last, or rethrows the error of the 3rd
\* invocation; and it always settles
ThmC39 ==
  /\ [](\A p \in Routed :
          LET c == calls[p] IN
          /\ c.n <= 3 /\ c.attempt <= 3 /\ Len(c.trace) <= 2
          /\ c.n = IF c.pc = "fn" THEN c.attempt - 1 ELSE c.attempt
          /\ c.trace = SubSeq(<<1000, 2000>>, 1, c.attempt - (IF c.pc = "sleep" THEN 0 ELSE 1))
          /\ c.pc = "done" =>
               \/ c.res = Returned(c.n)
               \/ c.res = Threw(3) /\ c.n = 3)
  /\ \A p \in Procs : (calls[p].op = "routeToolCall") ~> (calls[p].pc = "done")

\* a call whose first two invocations failed returned the result of the
\* third, having slept 1000 ms and 2000 ms, after a call that rethrew the
\* error of its third invocation
WitC39 ==
  /\ Len(hist) = 1 /\ hist[1] = Threw(3)
  /\ \E p \in Routed :
       calls[p].pc = "done" /\ calls[p].res = Returned(3) /\ calls[p].trace = <<1000, 2000>>

\* a tool name the code of routeToolCall may route: its server part names a
\* registered server and its method part a function of that server
Routable(toolName) ==
  /\ serverName(toolName) \in DOMAIN servers
  /\ Property(JSObject(serverName(toolName)), methodName(toolName)).type = "function"

\* C40 as stated: a call with a tool name whose server part is no
\* registered server, or whose method part is no function of that server,
\* is rejected with an error of code -32601, without an invocation and
\* without a delay
CexC40 ==
  \A p \in Procs :
    (calls[p].op = "routeToolCall" /\ ~Routable(calls[p].toolName)) =>
      /\ calls[p].pc = "done"
      /\ calls[p].res.status = "throw" /\ calls[p].res.code = -32601
      /\ calls[p].n = 0 /\ calls[p].trace = <<>>

====
